---------------------------- MODULE Spec2Model ----------------------------
(***************************************************************************)
(* LicenseChain Solana SDK: the facade client (LicenseChainSolana), the    *)
(* License, NFT and DeFi managers, the error taxonomy and the validation   *)
(* utilities, modelled as a state machine of one operation invocation:     *)
(* the caller invokes an operation, the operation validates its inputs     *)
(* and issues an HTTP request, the response (or a transport failure)       *)
(* arrives, and the operation settles with a value or a typed error.       *)
(* Beside it: the license status the backend holds (LicenseSpec), two      *)
(* invocations in flight together (ConcurrentSpec), one call of the retry  *)
(* helper (RetrySpec, RetryFairSpec) and one call of a pure utility        *)
(* (ProbeSpec).                                                            *)
(***************************************************************************)
EXTENDS Integers, Sequences, FiniteSets, TLC

VARIABLES
    config,     \* this.config of the facade, shared with the three managers
    pc,         \* "idle" | "awaiting" (fetch in flight) | "done" (promise settled)
    op,         \* the operation invoked (its descriptor)
    args,       \* the arguments the caller gave, by parameter name
    mgrArgs,    \* the arguments as bound to the parameters of the code that runs
    sent,       \* the HTTP requests issued by this invocation, in order
    response,   \* the HTTP response the invocation received
    raised,     \* the error that entered the operation's catch clause
    outcome,    \* what the caller receives: a value or an error
    license,    \* the status of license L1 as the backend holds it
    calls,      \* two invocations on the one client, side by side
    retrying,   \* one call of the retry helper
    probe       \* one call of a pure utility: its input, then its output

vars ==
    <<config, pc, op, args, mgrArgs, sent, response, raised, outcome, license,
      calls, retrying, probe>>

\* The state of an invocation on the client, and what it leaves alone.
client == <<config, pc, op, args, mgrArgs, sent, response, raised, outcome>>

beyond == <<license, calls, retrying, probe>>

(***************************************************************************)
(* JavaScript values.  Strings are sequences of one-character strings.     *)
(***************************************************************************)
Undefined == [t |-> "undefined"]
Null == [t |-> "null"]
Str(s) == [t |-> "string", s |-> s]
Num(n) == [t |-> "number", n |-> n]
Bool(b) == [t |-> "boolean", b |-> b]
Obj(f) == [t |-> "object", f |-> f]
Arr(a) == [t |-> "array", a |-> a]
NoFields == [x \in {} |-> Undefined]
\* A string literal of the code, kept as text.
Lit(text) == [t |-> "string", lit |-> text]

\* !v
Falsy(v) ==
    \/ v.t \in {"undefined", "null"}
    \/ v.t = "string" /\ "s" \in DOMAIN v /\ v.s = <<>>
    \/ v.t = "number" /\ v.n = 0
    \/ v.t = "boolean" /\ ~v.b

Nullish(v) == v.t \in {"undefined", "null"}

\* v.k where v is not null or undefined
Get(v, k) ==
    IF v.t = "object" /\ k \in DOMAIN v.f THEN v.f[k] ELSE Undefined

\* The TypeError of a property read on null or undefined.
TypeError == [name |-> "TypeError", message |-> "Cannot read properties"]

\* The result of evaluating an expression: a value, or a thrown cause.
Val(v) == [ok |-> TRUE, v |-> v]
Throw(e) == [ok |-> FALSE, e |-> e]

\* v.p1.p2...pn: a TypeError as soon as a property is read on null/undefined.
RECURSIVE GetPath(_, _)
GetPath(v, path) ==
    IF path = <<>> THEN Val(v)
    ELSE IF Nullish(v) THEN Throw(TypeError)
    ELSE GetPath(Get(v, Head(path)), Tail(path))

Spread_firstWins(a, b) ==
    LET fa == IF a.t = "object" THEN a.f ELSE NoFields
        fb == IF b.t = "object" THEN b.f ELSE NoFields
    IN  Obj([k \in DOMAIN fa \cup DOMAIN fb |->
                IF k \in DOMAIN fa THEN fa[k] ELSE fb[k]])

\* { ...a, ...b }: the fields of b override those of a; spreading a value
\* that is no object adds nothing.
Spread(a, b) ==
    LET fa == IF a.t = "object" THEN a.f ELSE NoFields
        fb == IF b.t = "object" THEN b.f ELSE NoFields
    IN  Obj([k \in DOMAIN fa \cup DOMAIN fb |->
                IF k \in DOMAIN fb THEN fb[k] ELSE fa[k]])

(***************************************************************************)
(* Error taxonomy.                                                         *)
(***************************************************************************)
SolanaError(message, code, details) ==
    [name |-> "SolanaError", code |-> code, message |-> message,
     details |-> details, ctx |-> Undefined]

SolanaNetworkError(message, details) ==
    [SolanaError(message, "NETWORK_ERROR", details)
        EXCEPT !.name = "SolanaNetworkError"]

SolanaRPCError(message, rpcCode, details) ==
    [SolanaError(message, "RPC_ERROR", details)
        EXCEPT !.name = "SolanaRPCError", !.ctx = rpcCode]

SolanaTransactionError_noSignature(message, signature, details) ==
    [SolanaError(message, "TRANSACTION_ERROR", details)
        EXCEPT !.name = "SolanaTransactionError"]

SolanaTransactionError(message, signature, details) ==
    [SolanaError(message, "TRANSACTION_ERROR", details)
        EXCEPT !.name = "SolanaTransactionError", !.ctx = signature]

SolanaAccountError_noAccount(message, account, details) ==
    [SolanaError(message, "ACCOUNT_ERROR", details)
        EXCEPT !.name = "SolanaAccountError"]

SolanaAccountError(message, account, details) ==
    [SolanaError(message, "ACCOUNT_ERROR", details)
        EXCEPT !.name = "SolanaAccountError", !.ctx = account]

SolanaValidationError(message) ==
    [SolanaError(message, "VALIDATION_ERROR", Undefined)
        EXCEPT !.name = "SolanaValidationError"]

\* The classes that extend SolanaError (and SolanaError itself).
SolanaErrorClasses ==
    {"SolanaError", "SolanaNetworkError", "SolanaRPCError",
     "SolanaTransactionError", "SolanaAccountError", "SolanaProgramError",
     "SolanaValidationError", "SolanaAuthenticationError",
     "SolanaRateLimitError", "SolanaInsufficientFundsError",
     "SolanaTimeoutError"}

\* error instanceof SolanaError
InstanceOfSolanaError(e) == e.name \in SolanaErrorClasses

NoError == [name |-> "none"]

(***************************************************************************)
(* Validation utilities.                                                   *)
(***************************************************************************)
MinKeyLength == 32
MaxKeyLength == 44

\* The character class of /^[1-9A-HJ-NP-Za-km-z]+$/
Base58 ==
    {"1", "2", "3", "4", "5", "6", "7", "8", "9",
     "A", "B", "C", "D", "E", "F", "G", "H",
     "J", "K", "L", "M", "N",
     "P", "Q", "R", "S", "T", "U", "V", "W", "X", "Y", "Z",
     "a", "b", "c", "d", "e", "f", "g", "h", "i", "j", "k",
     "m", "n", "o", "p", "q", "r", "s", "t", "u", "v", "w", "x", "y", "z"}

validatePublicKey_exclusive(publicKey) ==
    IF Falsy(publicKey) \/ publicKey.t # "string" THEN FALSE
    ELSE IF Len(publicKey.s) <= MinKeyLength \/ Len(publicKey.s) >= MaxKeyLength
         THEN FALSE
    ELSE \A i \in 1..Len(publicKey.s) : publicKey.s[i] \in Base58

validatePublicKey(publicKey) ==
    IF Falsy(publicKey) \/ publicKey.t # "string" THEN FALSE
    ELSE IF Len(publicKey.s) < MinKeyLength \/ Len(publicKey.s) > MaxKeyLength
         THEN FALSE
    ELSE \A i \in 1..Len(publicKey.s) : publicKey.s[i] \in Base58

formatPublicKey_unchecked(publicKey) == Val(publicKey)

\* Returns the key, or throws SolanaValidationError.
formatPublicKey(publicKey) ==
    IF ~validatePublicKey(publicKey)
    THEN Throw(SolanaValidationError(Lit("Invalid public key format")))
    ELSE Val(publicKey)


(***************************************************************************)
(* String literals of the code, as character sequences.                    *)
(***************************************************************************)
Solana == Str(<<"s", "o", "l", "a", "n", "a">>)
Sdk == Str(<<"s", "d", "k">>)
DefaultMarketplace == Str(<<"d", "e", "f", "a", "u", "l", "t">>)
Processed == Str(<<"p", "r", "o", "c", "e", "s", "s", "e", "d">>)
Confirmed == Str(<<"c", "o", "n", "f", "i", "r", "m", "e", "d">>)
Finalized == Str(<<"f", "i", "n", "a", "l", "i", "z", "e", "d">>)

(***************************************************************************)
(* Configuration: the facade's constructor lays the caller's fields over   *)
(* the defaults and hands the same object to the three managers.           *)
(***************************************************************************)
DefaultTimeout == 30000
DefaultRetries == 3

\* A URL: `${scheme}://${rest}`
Url(scheme, rest) == [scheme |-> scheme, rest |-> rest]

DefaultConfig ==
    [baseUrl |-> Url("https", "api.licensechain.com"),
     rpcUrl |-> Url("https", "api.mainnet-beta.solana.com"),
     timeout |-> DefaultTimeout,
     retries |-> DefaultRetries]

\* new LicenseChainSolana(userConfig): { ...defaults, ...userConfig }
LicenseChainSolana_constructor(userConfig) ==
    [k \in DOMAIN DefaultConfig \cup DOMAIN userConfig |->
        IF k \in DOMAIN userConfig THEN userConfig[k] ELSE DefaultConfig[k]]

(***************************************************************************)
(* The domain managers.  Every operation of a manager is the same          *)
(* template, and a descriptor gives what the operation fills in:           *)
(*   try {                                                                 *)
(*     if (!a || !b) throw new SolanaValidationError(requiredMsg);         *)
(*     if (!validatePublicKey(x) || ...) throw new SolanaValidationError;  *)
(*     const response = await this.makeRequest(method, path, body);        *)
(*     return response.data[.result];                                      *)
(*   } catch (error) {                                                     *)
(*     if (error instanceof SolanaError) throw error;                      *)
(*     throw new SolanaError(message, code, error);                        *)
(*   }                                                                     *)
(* params/types: the signature; required: the parameters of the `!x`       *)
(* check; addresses: those given to validatePublicKey; positive: those     *)
(* checked `<= 0`; defaults: default parameter values; body: how the       *)
(* request body is built ("fields": the bodyParams and platform: 'solana'; *)
(* "spread": the fields of the spread parameter first); result: the field  *)
(* of `data` returned ("" for `data` itself).                              *)
(***************************************************************************)
NoDefaults == [x \in {} |-> Undefined]

RestOp(cls, name, params, types) ==
    [kind |-> "rest", cls |-> cls, name |-> name, params |-> params,
     types |-> types, defaults |-> NoDefaults,
     required |-> <<>>, requiredMsg |-> "",
     addresses |-> <<>>, addressMsg |-> "",
     positive |-> <<>>, positiveMsg |-> "",
     method |-> "GET", path |-> "", pathParam |-> "",
     body |-> "none", bodyParams |-> <<>>, spread |-> "",
     result |-> "", code |-> "", message |-> ""]

SolanaLicenseManager_createLicense ==
    [RestOp("SolanaLicenseManager", "createLicense", <<"userId", "productId", "metadata">>,
            <<"id", "id", "metadata">>)
        EXCEPT !.required = <<"userId", "productId">>,
               !.requiredMsg = "User ID and Product ID are required",
               !.method = "POST",
               !.path = "/licenses",
               !.body = "createLicense",
               !.bodyParams = <<"userId", "productId">>,
               !.code = "LICENSE_CREATE_ERROR",
               !.message = "Failed to create license"]

SolanaLicenseManager_validateLicense ==
    [RestOp("SolanaLicenseManager", "validateLicense", <<"licenseKey">>,
            <<"id">>)
        EXCEPT !.required = <<"licenseKey">>,
               !.requiredMsg = "License key is required",
               !.method = "POST",
               !.path = "/licenses/validate",
               !.body = "fields",
               !.bodyParams = <<"licenseKey">>,
               !.result = "valid",
               !.code = "LICENSE_VALIDATE_ERROR",
               !.message = "Failed to validate license"]

SolanaLicenseManager_getLicense ==
    [RestOp("SolanaLicenseManager", "getLicense", <<"licenseId">>,
            <<"id">>)
        EXCEPT !.required = <<"licenseId">>,
               !.requiredMsg = "License ID is required",
               !.method = "GET",
               !.path = "/licenses/${licenseId}",
               !.pathParam = "licenseId",
               !.code = "LICENSE_GET_ERROR",
               !.message = "Failed to get license"]

SolanaLicenseManager_updateLicense ==
    [RestOp("SolanaLicenseManager", "updateLicense", <<"licenseId", "updates">>,
            <<"id", "updates">>)
        EXCEPT !.required = <<"licenseId">>,
               !.requiredMsg = "License ID is required",
               !.method = "PUT",
               !.path = "/licenses/${licenseId}",
               !.pathParam = "licenseId",
               !.body = "spread",
               !.spread = "updates",
               !.code = "LICENSE_UPDATE_ERROR",
               !.message = "Failed to update license"]

SolanaLicenseManager_revokeLicense ==
    [RestOp("SolanaLicenseManager", "revokeLicense", <<"licenseId">>,
            <<"id">>)
        EXCEPT !.required = <<"licenseId">>,
               !.requiredMsg = "License ID is required",
               !.method = "DELETE",
               !.path = "/licenses/${licenseId}",
               !.pathParam = "licenseId",
               !.result = "success",
               !.code = "LICENSE_REVOKE_ERROR",
               !.message = "Failed to revoke license"]

SolanaLicenseManager_getUserLicenses ==
    [RestOp("SolanaLicenseManager", "getUserLicenses", <<"userId">>,
            <<"id">>)
        EXCEPT !.required = <<"userId">>,
               !.requiredMsg = "User ID is required",
               !.method = "GET",
               !.path = "/users/${userId}/licenses",
               !.pathParam = "userId",
               !.code = "LICENSE_LIST_ERROR",
               !.message = "Failed to get user licenses"]

SolanaLicenseManager_getProductLicenses ==
    [RestOp("SolanaLicenseManager", "getProductLicenses", <<"productId">>,
            <<"id">>)
        EXCEPT !.required = <<"productId">>,
               !.requiredMsg = "Product ID is required",
               !.method = "GET",
               !.path = "/products/${productId}/licenses",
               !.pathParam = "productId",
               !.code = "LICENSE_LIST_ERROR",
               !.message = "Failed to get product licenses"]

SolanaLicenseManager_extendLicense ==
    [RestOp("SolanaLicenseManager", "extendLicense", <<"licenseId", "days">>,
            <<"id", "number">>)
        EXCEPT !.required = <<"licenseId">>,
               !.requiredMsg = "License ID is required",
               !.positive = <<"days">>,
               !.positiveMsg = "Days must be greater than 0",
               !.method = "POST",
               !.path = "/licenses/${licenseId}/extend",
               !.pathParam = "licenseId",
               !.body = "fields",
               !.bodyParams = <<"days">>,
               !.code = "LICENSE_EXTEND_ERROR",
               !.message = "Failed to extend license"]

SolanaLicenseManager_suspendLicense ==
    [RestOp("SolanaLicenseManager", "suspendLicense", <<"licenseId", "reason">>,
            <<"id", "optstring">>)
        EXCEPT !.required = <<"licenseId">>,
               !.requiredMsg = "License ID is required",
               !.method = "POST",
               !.path = "/licenses/${licenseId}/suspend",
               !.pathParam = "licenseId",
               !.body = "fields",
               !.bodyParams = <<"reason">>,
               !.result = "success",
               !.code = "LICENSE_SUSPEND_ERROR",
               !.message = "Failed to suspend license"]

SolanaLicenseManager_unsuspendLicense ==
    [RestOp("SolanaLicenseManager", "unsuspendLicense", <<"licenseId">>,
            <<"id">>)
        EXCEPT !.required = <<"licenseId">>,
               !.requiredMsg = "License ID is required",
               !.method = "POST",
               !.path = "/licenses/${licenseId}/unsuspend",
               !.pathParam = "licenseId",
               !.body = "fields",
               !.result = "success",
               !.code = "LICENSE_UNSUSPEND_ERROR",
               !.message = "Failed to unsuspend license"]

SolanaLicenseManager_getLicenseStats ==
    [RestOp("SolanaLicenseManager", "getLicenseStats", <<>>,
            <<>>)
        EXCEPT !.method = "GET",
               !.path = "/licenses/stats",
               !.code = "LICENSE_STATS_ERROR",
               !.message = "Failed to get license stats"]

SolanaLicenseManagerOps ==
    {SolanaLicenseManager_createLicense,
     SolanaLicenseManager_validateLicense,
     SolanaLicenseManager_getLicense,
     SolanaLicenseManager_updateLicense,
     SolanaLicenseManager_revokeLicense,
     SolanaLicenseManager_getUserLicenses,
     SolanaLicenseManager_getProductLicenses,
     SolanaLicenseManager_extendLicense,
     SolanaLicenseManager_suspendLicense,
     SolanaLicenseManager_unsuspendLicense,
     SolanaLicenseManager_getLicenseStats}

SolanaNFTManager_createNFT ==
    [RestOp("SolanaNFTManager", "createNFT", <<"metadata", "owner">>,
            <<"object", "address">>)
        EXCEPT !.required = <<"metadata", "owner">>,
               !.requiredMsg = "Metadata and owner are required",
               !.addresses = <<"owner">>,
               !.addressMsg = "Invalid owner public key",
               !.method = "POST",
               !.path = "/nfts",
               !.body = "fields",
               !.bodyParams = <<"metadata", "owner">>,
               !.code = "NFT_CREATE_ERROR",
               !.message = "Failed to create NFT"]

SolanaNFTManager_getNFT ==
    [RestOp("SolanaNFTManager", "getNFT", <<"mint">>,
            <<"address">>)
        EXCEPT !.required = <<"mint">>,
               !.requiredMsg = "Mint address is required",
               !.addresses = <<"mint">>,
               !.addressMsg = "Invalid mint address",
               !.method = "GET",
               !.path = "/nfts/${mint}",
               !.pathParam = "mint",
               !.code = "NFT_GET_ERROR",
               !.message = "Failed to get NFT"]

SolanaNFTManager_transferNFT ==
    [RestOp("SolanaNFTManager", "transferNFT", <<"mint", "from", "to">>,
            <<"address", "address", "address">>)
        EXCEPT !.required = <<"mint", "from", "to">>,
               !.requiredMsg = "Mint, from, and to addresses are required",
               !.addresses = <<"mint", "from", "to">>,
               !.addressMsg = "Invalid address format",
               !.method = "POST",
               !.path = "/nfts/${mint}/transfer",
               !.pathParam = "mint",
               !.body = "fields",
               !.bodyParams = <<"from", "to">>,
               !.result = "transactionSignature",
               !.code = "NFT_TRANSFER_ERROR",
               !.message = "Failed to transfer NFT"]

SolanaNFTManager_getOwnerNFTs ==
    [RestOp("SolanaNFTManager", "getOwnerNFTs", <<"owner">>,
            <<"address">>)
        EXCEPT !.required = <<"owner">>,
               !.requiredMsg = "Owner address is required",
               !.addresses = <<"owner">>,
               !.addressMsg = "Invalid owner address",
               !.method = "GET",
               !.path = "/nfts/owner/${owner}",
               !.pathParam = "owner",
               !.code = "NFT_LIST_ERROR",
               !.message = "Failed to get owner NFTs"]

SolanaNFTManager_getCollectionNFTs ==
    [RestOp("SolanaNFTManager", "getCollectionNFTs", <<"collection">>,
            <<"address">>)
        EXCEPT !.required = <<"collection">>,
               !.requiredMsg = "Collection address is required",
               !.addresses = <<"collection">>,
               !.addressMsg = "Invalid collection address",
               !.method = "GET",
               !.path = "/nfts/collection/${collection}",
               !.pathParam = "collection",
               !.code = "NFT_LIST_ERROR",
               !.message = "Failed to get collection NFTs"]

SolanaNFTManager_updateNFTMetadata ==
    [RestOp("SolanaNFTManager", "updateNFTMetadata", <<"mint", "metadata">>,
            <<"address", "updates">>)
        EXCEPT !.required = <<"mint">>,
               !.requiredMsg = "Mint address is required",
               !.addresses = <<"mint">>,
               !.addressMsg = "Invalid mint address",
               !.method = "PUT",
               !.path = "/nfts/${mint}/metadata",
               !.pathParam = "mint",
               !.body = "fields",
               !.bodyParams = <<"metadata">>,
               !.code = "NFT_UPDATE_ERROR",
               !.message = "Failed to update NFT metadata"]

SolanaNFTManager_burnNFT ==
    [RestOp("SolanaNFTManager", "burnNFT", <<"mint", "owner">>,
            <<"address", "address">>)
        EXCEPT !.required = <<"mint", "owner">>,
               !.requiredMsg = "Mint and owner addresses are required",
               !.addresses = <<"mint", "owner">>,
               !.addressMsg = "Invalid address format",
               !.method = "POST",
               !.path = "/nfts/${mint}/burn",
               !.pathParam = "mint",
               !.body = "fields",
               !.bodyParams = <<"owner">>,
               !.result = "transactionSignature",
               !.code = "NFT_BURN_ERROR",
               !.message = "Failed to burn NFT"]

SolanaNFTManager_createCollection ==
    [RestOp("SolanaNFTManager", "createCollection", <<"collection", "creator">>,
            <<"object", "address">>)
        EXCEPT !.required = <<"collection", "creator">>,
               !.requiredMsg = "Collection data and creator are required",
               !.addresses = <<"creator">>,
               !.addressMsg = "Invalid creator address",
               !.method = "POST",
               !.path = "/nfts/collections",
               !.body = "spread",
               !.bodyParams = <<"creator">>,
               !.spread = "collection",
               !.code = "COLLECTION_CREATE_ERROR",
               !.message = "Failed to create collection"]

SolanaNFTManager_getCollection ==
    [RestOp("SolanaNFTManager", "getCollection", <<"collectionId">>,
            <<"id">>)
        EXCEPT !.required = <<"collectionId">>,
               !.requiredMsg = "Collection ID is required",
               !.method = "GET",
               !.path = "/nfts/collections/${collectionId}",
               !.pathParam = "collectionId",
               !.code = "COLLECTION_GET_ERROR",
               !.message = "Failed to get collection"]

SolanaNFTManager_listNFT ==
    [RestOp("SolanaNFTManager", "listNFT", <<"mint", "price", "seller", "marketplace">>,
            <<"address", "number", "address", "optstring">>)
        EXCEPT !.defaults = [marketplace |-> DefaultMarketplace],
               !.required = <<"mint", "price", "seller">>,
               !.requiredMsg = "Mint, price, and seller are required",
               !.addresses = <<"mint", "seller">>,
               !.addressMsg = "Invalid address format",
               !.method = "POST",
               !.path = "/nfts/${mint}/list",
               !.pathParam = "mint",
               !.body = "fields",
               !.bodyParams = <<"price", "seller", "marketplace">>,
               !.code = "NFT_LIST_ERROR",
               !.message = "Failed to list NFT"]

SolanaNFTManager_unlistNFT ==
    [RestOp("SolanaNFTManager", "unlistNFT", <<"mint", "seller">>,
            <<"address", "address">>)
        EXCEPT !.required = <<"mint", "seller">>,
               !.requiredMsg = "Mint and seller are required",
               !.addresses = <<"mint", "seller">>,
               !.addressMsg = "Invalid address format",
               !.method = "POST",
               !.path = "/nfts/${mint}/unlist",
               !.pathParam = "mint",
               !.body = "fields",
               !.bodyParams = <<"seller">>,
               !.result = "success",
               !.code = "NFT_UNLIST_ERROR",
               !.message = "Failed to unlist NFT"]

SolanaNFTManager_buyNFT ==
    [RestOp("SolanaNFTManager", "buyNFT", <<"mint", "buyer", "price">>,
            <<"address", "address", "number">>)
        EXCEPT !.required = <<"mint", "buyer", "price">>,
               !.requiredMsg = "Mint, buyer, and price are required",
               !.addresses = <<"mint", "buyer">>,
               !.addressMsg = "Invalid address format",
               !.method = "POST",
               !.path = "/nfts/${mint}/buy",
               !.pathParam = "mint",
               !.body = "fields",
               !.bodyParams = <<"buyer", "price">>,
               !.result = "transactionSignature",
               !.code = "NFT_BUY_ERROR",
               !.message = "Failed to buy NFT"]

SolanaNFTManager_getMarketplaceListings ==
    [RestOp("SolanaNFTManager", "getMarketplaceListings", <<"filters">>,
            <<"filters">>)
        EXCEPT !.method = "GET",
               !.path = "/nfts/marketplace/listings",
               !.body = "params",
               !.bodyParams = <<"filters">>,
               !.code = "MARKETPLACE_LIST_ERROR",
               !.message = "Failed to get marketplace listings"]

SolanaNFTManager_getNFTStats ==
    [RestOp("SolanaNFTManager", "getNFTStats", <<>>,
            <<>>)
        EXCEPT !.method = "GET",
               !.path = "/nfts/stats",
               !.code = "NFT_STATS_ERROR",
               !.message = "Failed to get NFT stats"]

SolanaNFTManagerOps ==
    {SolanaNFTManager_createNFT,
     SolanaNFTManager_getNFT,
     SolanaNFTManager_transferNFT,
     SolanaNFTManager_getOwnerNFTs,
     SolanaNFTManager_getCollectionNFTs,
     SolanaNFTManager_updateNFTMetadata,
     SolanaNFTManager_burnNFT,
     SolanaNFTManager_createCollection,
     SolanaNFTManager_getCollection,
     SolanaNFTManager_listNFT,
     SolanaNFTManager_unlistNFT,
     SolanaNFTManager_buyNFT,
     SolanaNFTManager_getMarketplaceListings,
     SolanaNFTManager_getNFTStats}

SolanaDeFiManager_getPositions ==
    [RestOp("SolanaDeFiManager", "getPositions", <<"owner">>,
            <<"address">>)
        EXCEPT !.required = <<"owner">>,
               !.requiredMsg = "Owner address is required",
               !.addresses = <<"owner">>,
               !.addressMsg = "Invalid owner address",
               !.method = "GET",
               !.path = "/defi/positions/${owner}",
               !.pathParam = "owner",
               !.code = "DEFI_POSITIONS_ERROR",
               !.message = "Failed to get DeFi positions"]

SolanaDeFiManager_getLiquidityPools ==
    [RestOp("SolanaDeFiManager", "getLiquidityPools", <<>>,
            <<>>)
        EXCEPT !.method = "GET",
               !.path = "/defi/liquidity-pools",
               !.code = "LIQUIDITY_POOLS_ERROR",
               !.message = "Failed to get liquidity pools"]

SolanaDeFiManager_addLiquidity ==
    [RestOp("SolanaDeFiManager", "addLiquidity", <<"poolAddress", "amountA", "amountB", "owner">>,
            <<"address", "amount", "amount", "address">>)
        EXCEPT !.required = <<"poolAddress", "amountA", "amountB", "owner">>,
               !.requiredMsg = "Pool address, amounts, and owner are required",
               !.addresses = <<"poolAddress", "owner">>,
               !.addressMsg = "Invalid address format",
               !.method = "POST",
               !.path = "/defi/liquidity-pools/${poolAddress}/add",
               !.pathParam = "poolAddress",
               !.body = "fields",
               !.bodyParams = <<"amountA", "amountB", "owner">>,
               !.result = "transactionSignature",
               !.code = "ADD_LIQUIDITY_ERROR",
               !.message = "Failed to add liquidity"]

SolanaDeFiManager_removeLiquidity ==
    [RestOp("SolanaDeFiManager", "removeLiquidity", <<"poolAddress", "lpTokens", "owner">>,
            <<"address", "amount", "address">>)
        EXCEPT !.required = <<"poolAddress", "lpTokens", "owner">>,
               !.requiredMsg = "Pool address, LP tokens, and owner are required",
               !.addresses = <<"poolAddress", "owner">>,
               !.addressMsg = "Invalid address format",
               !.method = "POST",
               !.path = "/defi/liquidity-pools/${poolAddress}/remove",
               !.pathParam = "poolAddress",
               !.body = "fields",
               !.bodyParams = <<"lpTokens", "owner">>,
               !.result = "transactionSignature",
               !.code = "REMOVE_LIQUIDITY_ERROR",
               !.message = "Failed to remove liquidity"]

SolanaDeFiManager_swapTokens ==
    [RestOp("SolanaDeFiManager", "swapTokens", <<"inputMint", "outputMint", "amountIn", "minAmountOut", "owner">>,
            <<"address", "address", "amount", "amount", "address">>)
        EXCEPT !.required = <<"inputMint", "outputMint", "amountIn", "minAmountOut", "owner">>,
               !.requiredMsg = "All swap parameters are required",
               !.addresses = <<"inputMint", "outputMint", "owner">>,
               !.addressMsg = "Invalid address format",
               !.method = "POST",
               !.path = "/defi/swap",
               !.body = "fields",
               !.bodyParams = <<"inputMint", "outputMint", "amountIn", "minAmountOut", "owner">>,
               !.result = "transactionSignature",
               !.code = "SWAP_ERROR",
               !.message = "Failed to swap tokens"]

SolanaDeFiManager_getLendingPools ==
    [RestOp("SolanaDeFiManager", "getLendingPools", <<>>,
            <<>>)
        EXCEPT !.method = "GET",
               !.path = "/defi/lending-pools",
               !.code = "LENDING_POOLS_ERROR",
               !.message = "Failed to get lending pools"]

SolanaDeFiManager_supplyLiquidity ==
    [RestOp("SolanaDeFiManager", "supplyLiquidity", <<"poolAddress", "amount", "owner">>,
            <<"address", "amount", "address">>)
        EXCEPT !.required = <<"poolAddress", "amount", "owner">>,
               !.requiredMsg = "Pool address, amount, and owner are required",
               !.addresses = <<"poolAddress", "owner">>,
               !.addressMsg = "Invalid address format",
               !.method = "POST",
               !.path = "/defi/lending-pools/${poolAddress}/supply",
               !.pathParam = "poolAddress",
               !.body = "fields",
               !.bodyParams = <<"amount", "owner">>,
               !.result = "transactionSignature",
               !.code = "SUPPLY_LIQUIDITY_ERROR",
               !.message = "Failed to supply liquidity"]

SolanaDeFiManager_borrowLiquidity ==
    [RestOp("SolanaDeFiManager", "borrowLiquidity", <<"poolAddress", "amount", "owner">>,
            <<"address", "amount", "address">>)
        EXCEPT !.required = <<"poolAddress", "amount", "owner">>,
               !.requiredMsg = "Pool address, amount, and owner are required",
               !.addresses = <<"poolAddress", "owner">>,
               !.addressMsg = "Invalid address format",
               !.method = "POST",
               !.path = "/defi/lending-pools/${poolAddress}/borrow",
               !.pathParam = "poolAddress",
               !.body = "fields",
               !.bodyParams = <<"amount", "owner">>,
               !.result = "transactionSignature",
               !.code = "BORROW_LIQUIDITY_ERROR",
               !.message = "Failed to borrow liquidity"]

SolanaDeFiManager_repayLiquidity ==
    [RestOp("SolanaDeFiManager", "repayLiquidity", <<"poolAddress", "amount", "owner">>,
            <<"address", "amount", "address">>)
        EXCEPT !.required = <<"poolAddress", "amount", "owner">>,
               !.requiredMsg = "Pool address, amount, and owner are required",
               !.addresses = <<"poolAddress", "owner">>,
               !.addressMsg = "Invalid address format",
               !.method = "POST",
               !.path = "/defi/lending-pools/${poolAddress}/repay",
               !.pathParam = "poolAddress",
               !.body = "fields",
               !.bodyParams = <<"amount", "owner">>,
               !.result = "transactionSignature",
               !.code = "REPAY_LIQUIDITY_ERROR",
               !.message = "Failed to repay liquidity"]

SolanaDeFiManager_getStakingPools ==
    [RestOp("SolanaDeFiManager", "getStakingPools", <<>>,
            <<>>)
        EXCEPT !.method = "GET",
               !.path = "/defi/staking-pools",
               !.code = "STAKING_POOLS_ERROR",
               !.message = "Failed to get staking pools"]

SolanaDeFiManager_stakeTokens ==
    [RestOp("SolanaDeFiManager", "stakeTokens", <<"poolAddress", "amount", "owner">>,
            <<"address", "amount", "address">>)
        EXCEPT !.required = <<"poolAddress", "amount", "owner">>,
               !.requiredMsg = "Pool address, amount, and owner are required",
               !.addresses = <<"poolAddress", "owner">>,
               !.addressMsg = "Invalid address format",
               !.method = "POST",
               !.path = "/defi/staking-pools/${poolAddress}/stake",
               !.pathParam = "poolAddress",
               !.body = "fields",
               !.bodyParams = <<"amount", "owner">>,
               !.result = "transactionSignature",
               !.code = "STAKE_ERROR",
               !.message = "Failed to stake tokens"]

SolanaDeFiManager_unstakeTokens ==
    [RestOp("SolanaDeFiManager", "unstakeTokens", <<"poolAddress", "amount", "owner">>,
            <<"address", "amount", "address">>)
        EXCEPT !.required = <<"poolAddress", "amount", "owner">>,
               !.requiredMsg = "Pool address, amount, and owner are required",
               !.addresses = <<"poolAddress", "owner">>,
               !.addressMsg = "Invalid address format",
               !.method = "POST",
               !.path = "/defi/staking-pools/${poolAddress}/unstake",
               !.pathParam = "poolAddress",
               !.body = "fields",
               !.bodyParams = <<"amount", "owner">>,
               !.result = "transactionSignature",
               !.code = "UNSTAKE_ERROR",
               !.message = "Failed to unstake tokens"]

SolanaDeFiManager_claimRewards ==
    [RestOp("SolanaDeFiManager", "claimRewards", <<"poolAddress", "owner">>,
            <<"address", "address">>)
        EXCEPT !.required = <<"poolAddress", "owner">>,
               !.requiredMsg = "Pool address and owner are required",
               !.addresses = <<"poolAddress", "owner">>,
               !.addressMsg = "Invalid address format",
               !.method = "POST",
               !.path = "/defi/staking-pools/${poolAddress}/claim",
               !.pathParam = "poolAddress",
               !.body = "fields",
               !.bodyParams = <<"owner">>,
               !.result = "transactionSignature",
               !.code = "CLAIM_REWARDS_ERROR",
               !.message = "Failed to claim rewards"]

SolanaDeFiManager_getYieldFarms ==
    [RestOp("SolanaDeFiManager", "getYieldFarms", <<>>,
            <<>>)
        EXCEPT !.method = "GET",
               !.path = "/defi/yield-farms",
               !.code = "YIELD_FARMS_ERROR",
               !.message = "Failed to get yield farms"]

SolanaDeFiManager_farmYield ==
    [RestOp("SolanaDeFiManager", "farmYield", <<"farmAddress", "amount", "owner">>,
            <<"address", "amount", "address">>)
        EXCEPT !.required = <<"farmAddress", "amount", "owner">>,
               !.requiredMsg = "Farm address, amount, and owner are required",
               !.addresses = <<"farmAddress", "owner">>,
               !.addressMsg = "Invalid address format",
               !.method = "POST",
               !.path = "/defi/yield-farms/${farmAddress}/farm",
               !.pathParam = "farmAddress",
               !.body = "fields",
               !.bodyParams = <<"amount", "owner">>,
               !.result = "transactionSignature",
               !.code = "FARM_YIELD_ERROR",
               !.message = "Failed to farm yield"]

SolanaDeFiManager_harvestYield ==
    [RestOp("SolanaDeFiManager", "harvestYield", <<"farmAddress", "owner">>,
            <<"address", "address">>)
        EXCEPT !.required = <<"farmAddress", "owner">>,
               !.requiredMsg = "Farm address and owner are required",
               !.addresses = <<"farmAddress", "owner">>,
               !.addressMsg = "Invalid address format",
               !.method = "POST",
               !.path = "/defi/yield-farms/${farmAddress}/harvest",
               !.pathParam = "farmAddress",
               !.body = "fields",
               !.bodyParams = <<"owner">>,
               !.result = "transactionSignature",
               !.code = "HARVEST_YIELD_ERROR",
               !.message = "Failed to harvest yield"]

SolanaDeFiManager_getDeFiStats ==
    [RestOp("SolanaDeFiManager", "getDeFiStats", <<>>,
            <<>>)
        EXCEPT !.method = "GET",
               !.path = "/defi/stats",
               !.code = "DEFI_STATS_ERROR",
               !.message = "Failed to get DeFi stats"]

SolanaDeFiManagerOps ==
    {SolanaDeFiManager_getPositions,
     SolanaDeFiManager_getLiquidityPools,
     SolanaDeFiManager_addLiquidity,
     SolanaDeFiManager_removeLiquidity,
     SolanaDeFiManager_swapTokens,
     SolanaDeFiManager_getLendingPools,
     SolanaDeFiManager_supplyLiquidity,
     SolanaDeFiManager_borrowLiquidity,
     SolanaDeFiManager_repayLiquidity,
     SolanaDeFiManager_getStakingPools,
     SolanaDeFiManager_stakeTokens,
     SolanaDeFiManager_unstakeTokens,
     SolanaDeFiManager_claimRewards,
     SolanaDeFiManager_getYieldFarms,
     SolanaDeFiManager_farmYield,
     SolanaDeFiManager_harvestYield,
     SolanaDeFiManager_getDeFiStats}


(***************************************************************************)
(* Calls and requests.                                                     *)
(***************************************************************************)
Range(q) == {q[i] : i \in 1..Len(q)}

IndexOf(q, x) == CHOOSE i \in 1..Len(q) : q[i] = x

\* The parameters of a function called with the positional arguments
\* `positional`: a parameter with no argument is undefined, and a default
\* value stands in for undefined.
Bind(o, positional) ==
    [p \in Range(o.params) |->
        LET i == IndexOf(o.params, p)
            v == IF i <= Len(positional) THEN positional[i] ELSE Undefined
        IN  IF v = Undefined /\ p \in DOMAIN o.defaults
            THEN o.defaults[p] ELSE v]

\* JSON.stringify followed by the receiver's parse: the fields whose value
\* is undefined are left out, at every depth.
RECURSIVE JSONstringify(_)
JSONstringify(v) ==
    IF v.t = "object"
    THEN Obj([k \in {x \in DOMAIN v.f : v.f[x] # Undefined} |->
                JSONstringify(v.f[k])])
    ELSE IF v.t = "array"
    THEN Arr([i \in 1..Len(v.a) |->
                IF v.a[i] = Undefined THEN Null ELSE JSONstringify(v.a[i])])
    ELSE v

\* `${endpoint}` of an operation: at most one parameter is interpolated.
Endpoint(o, b) ==
    [template |-> o.path,
     value |-> IF o.pathParam = "" THEN <<>> ELSE b[o.pathParam].s]

\* The `data` argument an operation gives to makeRequest.
RequestData(o, b) ==
    LET fields == Obj([k \in Range(o.bodyParams) \cup {"platform"} |->
                        IF k = "platform" THEN Solana ELSE b[k]])
    IN  CASE o.body = "none" -> Undefined
          [] o.body = "fields" -> fields
          [] o.body = "spread" -> Spread(b[o.spread], fields)
          [] o.body = "params" -> Obj([params |-> b.filters])
          [] o.body = "createLicense" ->
                Obj([userId |-> b.userId,
                     productId |-> b.productId,
                     metadata |-> Spread(b.metadata,
                                         Obj([platform |-> Solana,
                                              createdVia |-> Sdk]))])

\* makeRequest up to its fetch: the url and the options of the request.
makeRequest_options_ownDefaults(cfg, method, endpoint, data) ==
    [url |-> [base |-> DefaultConfig.baseUrl, endpoint |-> endpoint],
     method |-> method,
     authorization |-> cfg.apiKey,
     platform |-> "solana",
     body |-> IF Falsy(data) THEN Undefined ELSE JSONstringify(data),
     timeout |-> DefaultConfig.timeout]

makeRequest_options(cfg, method, endpoint, data) ==
    [url |-> [base |-> cfg.baseUrl, endpoint |-> endpoint],
     method |-> method,
     authorization |-> cfg.apiKey,
     platform |-> "solana",
     body |-> IF Falsy(data) THEN Undefined ELSE JSONstringify(data),
     timeout |-> cfg.timeout]

\* `HTTP ${response.status}: ${response.statusText}`
HttpMessage(resp) ==
    [t |-> "string", lit |-> "HTTP ${response.status}: ${response.statusText}",
     status |-> resp.status]

\* makeRequest from its fetch on, given what fetch did: the parsed body,
\* or the error thrown.
SolanaLicenseManager_makeRequest_unchecked(resp) ==
    IF resp.t = "reject"
    THEN Throw(SolanaNetworkError(Lit("API request failed"), resp.cause))
    ELSE IF ~resp.body.ok
    THEN Throw(SolanaNetworkError(Lit("API request failed"), resp.body.e))
    ELSE Val(resp.body.v)

SolanaLicenseManager_makeRequest(resp) ==
    IF resp.t = "reject"
    THEN Throw(SolanaNetworkError(Lit("API request failed"), resp.cause))
    ELSE IF ~resp.ok
    THEN Throw(SolanaNetworkError(HttpMessage(resp), Undefined))
    ELSE IF ~resp.body.ok
    THEN Throw(SolanaNetworkError(Lit("API request failed"), resp.body.e))
    ELSE Val(resp.body.v)

SolanaNFTManager_makeRequest(resp) ==
    IF resp.t = "reject"
    THEN Throw(SolanaNetworkError(Lit("API request failed"), resp.cause))
    ELSE IF ~resp.ok
    THEN Throw(SolanaNetworkError(HttpMessage(resp), Undefined))
    ELSE IF ~resp.body.ok
    THEN Throw(SolanaNetworkError(Lit("API request failed"), resp.body.e))
    ELSE Val(resp.body.v)

SolanaDeFiManager_makeRequest(resp) ==
    IF resp.t = "reject"
    THEN Throw(SolanaNetworkError(Lit("API request failed"), resp.cause))
    ELSE IF ~resp.ok
    THEN Throw(SolanaNetworkError(HttpMessage(resp), Undefined))
    ELSE IF ~resp.body.ok
    THEN Throw(SolanaNetworkError(Lit("API request failed"), resp.body.e))
    ELSE Val(resp.body.v)

\* The local checks of a manager operation, in the order of the code.
ManagerValidate_negativeOnly(o, b) ==
    IF \E i \in 1..Len(o.required) : Falsy(b[o.required[i]])
    THEN Throw(SolanaValidationError(Lit(o.requiredMsg)))
    ELSE IF \E i \in 1..Len(o.addresses) : ~validatePublicKey(b[o.addresses[i]])
    THEN Throw(SolanaValidationError(Lit(o.addressMsg)))
    ELSE IF \E i \in 1..Len(o.positive) : b[o.positive[i]].n < 0
    THEN Throw(SolanaValidationError(Lit(o.positiveMsg)))
    ELSE Val(Undefined)

ManagerValidate(o, b) ==
    IF \E i \in 1..Len(o.required) : Falsy(b[o.required[i]])
    THEN Throw(SolanaValidationError(Lit(o.requiredMsg)))
    ELSE IF \E i \in 1..Len(o.addresses) : ~validatePublicKey(b[o.addresses[i]])
    THEN Throw(SolanaValidationError(Lit(o.addressMsg)))
    ELSE IF \E i \in 1..Len(o.positive) : b[o.positive[i]].n <= 0
    THEN Throw(SolanaValidationError(Lit(o.positiveMsg)))
    ELSE Val(Undefined)

ManagerReturn_wholeBody(o, json) == Val(json)

\* return response.data, or response.data.<result>
ManagerReturn(o, json) ==
    GetPath(json, IF o.result = "" THEN <<"data">> ELSE <<"data", o.result>>)

\* The catch clause of a manager operation.
ManagerCatch_noDetails(o, error) ==
    IF InstanceOfSolanaError(error) THEN error
    ELSE SolanaError(Lit(o.message), o.code, Undefined)

ManagerCatch(o, error) ==
    IF InstanceOfSolanaError(error) THEN error
    ELSE SolanaError(Lit(o.message), o.code, error)


(***************************************************************************)
(* The facade's RPC passthroughs.  A descriptor gives the signature, the   *)
(* parameters given to formatPublicKey (addresses; optAddresses only when  *)
(* truthy), the JSON-RPC method, the not-found check (notFound: "" for     *)
(* none, "value" for `!response.value`, "value[0]" for                     *)
(* `!response.value[0]`), and the catch clause: whether it rethrows a      *)
(* SolanaError as it is (passthrough), and the error it wraps with (wrap:  *)
(* the class; wrapCtx: the parameter given as account or signature; code:  *)
(* the code of a base SolanaError).                                        *)
(***************************************************************************)
RpcOp(name, params, types) ==
    [kind |-> "rpc", cls |-> "LicenseChainSolana", name |-> name,
     params |-> params, types |-> types, defaults |-> NoDefaults,
     addresses |-> <<>>, optAddresses |-> <<>>,
     rpcMethod |-> "", notFound |-> "", notFoundMsg |-> "",
     notFoundCode |-> "",
     passthrough |-> FALSE, wrap |-> "SolanaError", wrapCtx |-> "",
     code |-> "", message |-> ""]

LicenseChainSolana_getAccount ==
    [RpcOp("getAccount", <<"publicKey">>, <<"address">>)
        EXCEPT !.addresses = <<"publicKey">>,
               !.rpcMethod = "getAccountInfo",
               !.notFound = "value",
               !.notFoundMsg = "Account not found",
               !.passthrough = TRUE,
               !.wrap = "SolanaAccountError",
               !.wrapCtx = "publicKey",
               !.message = "Failed to get account"]

LicenseChainSolana_getBalance ==
    [RpcOp("getBalance", <<"publicKey">>, <<"address">>)
        EXCEPT !.addresses = <<"publicKey">>,
               !.rpcMethod = "getBalance",
               !.wrap = "SolanaAccountError",
               !.wrapCtx = "publicKey",
               !.message = "Failed to get balance"]

LicenseChainSolana_getTokenAccounts ==
    [RpcOp("getTokenAccounts", <<"owner", "mint">>, <<"address", "optaddress">>)
        EXCEPT !.addresses = <<"owner">>,
               !.optAddresses = <<"mint">>,
               !.rpcMethod = "getTokenAccountsByOwner",
               !.wrap = "SolanaAccountError",
               !.wrapCtx = "owner",
               !.message = "Failed to get token accounts"]

LicenseChainSolana_sendTransaction ==
    [RpcOp("sendTransaction", <<"transaction">>, <<"transaction">>)
        EXCEPT !.rpcMethod = "sendTransaction",
               !.wrap = "SolanaTransactionError",
               !.message = "Failed to send transaction"]

LicenseChainSolana_confirmTransaction ==
    [RpcOp("confirmTransaction", <<"signature", "commitment">>,
           <<"signature", "commitment">>)
        EXCEPT !.defaults = [commitment |-> Confirmed],
               !.rpcMethod = "getSignatureStatuses",
               !.notFound = "value[0]",
               !.notFoundMsg = "Transaction not found",
               !.wrap = "SolanaTransactionError",
               !.wrapCtx = "signature",
               !.message = "Failed to confirm transaction"]

LicenseChainSolana_getTransaction ==
    [RpcOp("getTransaction", <<"signature">>, <<"signature">>)
        EXCEPT !.rpcMethod = "getTransaction",
               !.notFound = "value",
               !.notFoundMsg = "Transaction not found",
               !.wrap = "SolanaTransactionError",
               !.wrapCtx = "signature",
               !.message = "Failed to get transaction"]

LicenseChainSolana_getProgram ==
    [RpcOp("getProgram", <<"programId">>, <<"address">>)
        EXCEPT !.addresses = <<"programId">>,
               !.rpcMethod = "getAccountInfo",
               !.notFound = "value",
               !.notFoundMsg = "Program not found",
               !.wrap = "SolanaAccountError",
               !.wrapCtx = "programId",
               !.message = "Failed to get program"]

LicenseChainSolana_getBlock ==
    [RpcOp("getBlock", <<"slot">>, <<"number">>)
        EXCEPT !.rpcMethod = "getBlock",
               !.notFound = "value",
               !.notFoundMsg = "Block not found",
               !.notFoundCode = "BLOCK_NOT_FOUND",
               !.code = "BLOCK_ERROR",
               !.message = "Failed to get block"]

LicenseChainSolana_getLatestBlockhash ==
    [RpcOp("getLatestBlockhash", <<>>, <<>>)
        EXCEPT !.rpcMethod = "getLatestBlockhash",
               !.code = "BLOCKHASH_ERROR",
               !.message = "Failed to get latest blockhash"]

LicenseChainSolana_getClusterInfo ==
    [RpcOp("getClusterInfo", <<>>, <<>>)
        EXCEPT !.rpcMethod = "getClusterNodes",
               !.code = "CLUSTER_ERROR",
               !.message = "Failed to get cluster info"]

LicenseChainSolana_getValidators ==
    [RpcOp("getValidators", <<>>, <<>>)
        EXCEPT !.rpcMethod = "getVoteAccounts",
               !.code = "VALIDATORS_ERROR",
               !.message = "Failed to get validators"]

LicenseChainSolana_getStakeAccounts ==
    [RpcOp("getStakeAccounts", <<"owner">>, <<"address">>)
        EXCEPT !.addresses = <<"owner">>,
               !.rpcMethod = "getProgramAccounts",
               !.code = "STAKE_ERROR",
               !.message = "Failed to get stake accounts"]

RpcOps ==
    {LicenseChainSolana_getAccount, LicenseChainSolana_getBalance,
     LicenseChainSolana_getTokenAccounts, LicenseChainSolana_sendTransaction,
     LicenseChainSolana_confirmTransaction, LicenseChainSolana_getTransaction,
     LicenseChainSolana_getProgram, LicenseChainSolana_getBlock,
     LicenseChainSolana_getLatestBlockhash, LicenseChainSolana_getClusterInfo,
     LicenseChainSolana_getValidators, LicenseChainSolana_getStakeAccounts}

(***************************************************************************)
(* The facade's delegated operations: `return this.manager.op(a, b, c)`.   *)
(* forward: the facade's parameters in the order they are passed on.       *)
(***************************************************************************)
DelegateOp(name, params, types, target) ==
    [kind |-> "delegate", cls |-> "LicenseChainSolana", name |-> name,
     params |-> params, types |-> types, defaults |-> NoDefaults,
     target |-> target, forward |-> params]

LicenseChainSolana_createLicense ==
    DelegateOp("createLicense", <<"userId", "productId", "metadata">>,
               <<"id", "id", "metadata">>, SolanaLicenseManager_createLicense)

LicenseChainSolana_validateLicense ==
    DelegateOp("validateLicense", <<"licenseKey">>, <<"id">>,
               SolanaLicenseManager_validateLicense)

LicenseChainSolana_getLicense ==
    DelegateOp("getLicense", <<"licenseId">>, <<"id">>,
               SolanaLicenseManager_getLicense)

LicenseChainSolana_updateLicense ==
    DelegateOp("updateLicense", <<"licenseId", "updates">>,
               <<"id", "updates">>, SolanaLicenseManager_updateLicense)

LicenseChainSolana_revokeLicense ==
    DelegateOp("revokeLicense", <<"licenseId">>, <<"id">>,
               SolanaLicenseManager_revokeLicense)

LicenseChainSolana_createNFT ==
    DelegateOp("createNFT", <<"metadata", "owner">>, <<"object", "address">>,
               SolanaNFTManager_createNFT)

LicenseChainSolana_getNFT ==
    DelegateOp("getNFT", <<"mint">>, <<"address">>, SolanaNFTManager_getNFT)

LicenseChainSolana_transferNFT ==
    DelegateOp("transferNFT", <<"mint", "from", "to">>,
               <<"address", "address", "address">>,
               SolanaNFTManager_transferNFT)

LicenseChainSolana_getDeFiPositions ==
    DelegateOp("getDeFiPositions", <<"owner">>, <<"address">>,
               SolanaDeFiManager_getPositions)

LicenseChainSolana_addLiquidity ==
    DelegateOp("addLiquidity", <<"poolAddress", "amount", "owner">>,
               <<"address", "amount", "address">>,
               SolanaDeFiManager_addLiquidity)

LicenseChainSolana_removeLiquidity ==
    DelegateOp("removeLiquidity", <<"poolAddress", "amount", "owner">>,
               <<"address", "amount", "address">>,
               SolanaDeFiManager_removeLiquidity)

DelegateOps ==
    {LicenseChainSolana_createLicense, LicenseChainSolana_validateLicense,
     LicenseChainSolana_getLicense, LicenseChainSolana_updateLicense,
     LicenseChainSolana_revokeLicense, LicenseChainSolana_createNFT,
     LicenseChainSolana_getNFT, LicenseChainSolana_transferNFT,
     LicenseChainSolana_getDeFiPositions, LicenseChainSolana_addLiquidity,
     LicenseChainSolana_removeLiquidity}


(***************************************************************************)
(* The facade's JSON-RPC requests.                                         *)
(***************************************************************************)
NoEndpoint == [template |-> "", value |-> <<>>]

\* The `params` array of the JSON-RPC envelope.
RpcParams(o, b) ==
    CASE o.name \in {"getAccount", "getBalance"} -> <<b.publicKey>>
      [] o.name = "getTokenAccounts" ->
            <<b.owner,
              Obj([programId |->
                     Lit("TokenkegQfeZyiNwAJbNbGKPFXCWuBvf9Ss623VQ5DA")]),
              IF Falsy(b.mint) THEN Undefined
              ELSE Arr(<<Obj([mint |-> b.mint])>>)>>
      [] o.name = "sendTransaction" -> <<b.transaction>>
      [] o.name = "confirmTransaction" ->
            <<Arr(<<b.signature>>),
              Obj([searchTransactionHistory |-> Bool(TRUE)])>>
      [] o.name = "getTransaction" -> <<b.signature>>
      [] o.name = "getProgram" -> <<b.programId>>
      [] o.name = "getBlock" -> <<b.slot>>
      [] o.name = "getStakeAccounts" ->
            <<Lit("Stake11111111111111111111111111111111111112"),
              Obj([filters |->
                     Arr(<<Obj([memcmp |->
                                  Obj([offset |-> Num(124),
                                       bytes |-> b.owner])])>>)])>>
      [] OTHER -> <<>>

\* makeRPCRequest up to its fetch: the url and the options of the request.
makeRPCRequest_options(cfg, method, params) ==
    [url |-> [base |-> cfg.rpcUrl, endpoint |-> NoEndpoint],
     method |-> "POST",
     authorization |-> cfg.apiKey,
     platform |-> "",
     body |-> JSONstringify(Obj([jsonrpc |-> Lit("2.0"),
                                 id |-> Num(1),
                                 method |-> Lit(method),
                                 params |-> Arr(params)])),
     timeout |-> cfg.timeout]

\* makeRPCRequest from its fetch on: the parsed body, or the error thrown.
makeRPCRequest(resp) ==
    IF resp.t = "reject"
    THEN Throw(SolanaNetworkError(Lit("RPC request failed"), resp.cause))
    ELSE IF ~resp.ok
    THEN Throw(SolanaNetworkError(HttpMessage(resp), Undefined))
    ELSE IF ~resp.body.ok
    THEN Throw(SolanaNetworkError(Lit("RPC request failed"), resp.body.e))
    ELSE IF Nullish(resp.body.v)
    THEN Throw(SolanaNetworkError(Lit("RPC request failed"), TypeError))
    ELSE IF ~Falsy(Get(resp.body.v, "error"))
    THEN Throw(SolanaRPCError(Get(Get(resp.body.v, "error"), "message"),
                              Get(Get(resp.body.v, "error"), "code"),
                              Get(resp.body.v, "error")))
    ELSE Val(resp.body.v)

\* The formatPublicKey calls that open an RPC passthrough.
FacadeValidate(o, b) ==
    IF \E i \in 1..Len(o.addresses) : ~formatPublicKey(b[o.addresses[i]]).ok
    THEN formatPublicKey(Undefined)
    ELSE IF \E i \in 1..Len(o.optAddresses) :
                /\ ~Falsy(b[o.optAddresses[i]])
                /\ ~formatPublicKey(b[o.optAddresses[i]]).ok
    THEN formatPublicKey(Undefined)
    ELSE Val(Undefined)

\* The error an RPC passthrough constructs: of its class, about the
\* parameter wrapCtx.
FacadeError(o, b, message, code, details) ==
    LET ctx == IF o.wrapCtx = "" THEN Undefined ELSE b[o.wrapCtx]
    IN  CASE o.wrap = "SolanaAccountError" ->
                SolanaAccountError(message, ctx, details)
          [] o.wrap = "SolanaTransactionError" ->
                SolanaTransactionError(message, ctx, details)
          [] OTHER -> SolanaError(message, code, details)

\* x[0]
First(x) ==
    IF x.t = "array" /\ Len(x.a) >= 1 THEN x.a[1] ELSE Undefined

\* The not-found check on the body makeRPCRequest returned.
NotFound(o, b, data) ==
    LET value == Get(data, "value")
        error == FacadeError(o, b, Lit(o.notFoundMsg), o.notFoundCode, Undefined)
    IN  CASE o.notFound = "value" ->
                IF Falsy(value) THEN Throw(error) ELSE Val(Undefined)
          [] o.notFound = "value[0]" ->
                IF Nullish(value) THEN Throw(TypeError)
                ELSE IF Falsy(First(value)) THEN Throw(error)
                ELSE Val(Undefined)
          [] OTHER -> Val(Undefined)

FacadeCatch_rethrow(o, b, error) == error

\* The catch clause of an RPC passthrough.
FacadeCatch(o, b, error) ==
    IF o.passthrough /\ InstanceOfSolanaError(error) THEN error
    ELSE FacadeError(o, b, Lit(o.message), o.code, error)


(***************************************************************************)
(* Reshaping the RPC body into the typed entity.                           *)
(***************************************************************************)
Or_left(a, b) == a

\* a || b
Or(a, b) == IF Falsy(a) THEN b ELSE a

\* v?.k
OptGet(v, k) == IF Nullish(v) THEN Undefined ELSE Get(v, k)

\* rows.map(row => ({ field: row.p1.p2..., ... })), paths giving each
\* field's property path: a TypeError when rows is no array or a path
\* reads a property of null or undefined.
MapRows(rows, paths) ==
    IF rows.t # "array" THEN Throw(TypeError)
    ELSE IF \E i \in 1..Len(rows.a) : \E k \in DOMAIN paths :
                ~GetPath(rows.a[i], paths[k]).ok
    THEN Throw(TypeError)
    ELSE Val(Arr([i \in 1..Len(rows.a) |->
                    Obj([k \in DOMAIN paths |->
                            GetPath(rows.a[i], paths[k]).v])]))

\* a.concat(b)
Concat(a, b) ==
    IF a.t # "array" THEN Throw(TypeError)
    ELSE IF b.t = "array" THEN Val(Arr(a.a \o b.a))
    ELSE Val(Arr(Append(a.a, b)))

ProgramLogPrefix ==
    <<"P", "r", "o", "g", "r", "a", "m", " ", "l", "o", "g", ":", " ">>

StartsWith(str, prefix) ==
    /\ str.t = "string" /\ "s" \in DOMAIN str
    /\ Len(str.s) >= Len(prefix)
    /\ SubSeq(str.s, 1, Len(prefix)) = prefix

\* logMessages?.find(msg => msg.startsWith('Program log: '))
\*            ?.replace('Program log: ', '')
Memo(logMessages) ==
    IF Nullish(logMessages) THEN Val(Undefined)
    ELSE IF logMessages.t # "array" THEN Throw(TypeError)
    ELSE LET hits == {i \in 1..Len(logMessages.a) :
                        StartsWith(logMessages.a[i], ProgramLogPrefix)}
         IN  IF hits = {} THEN Val(Undefined)
             ELSE LET i == CHOOSE j \in hits : \A k \in hits : j <= k
                      m == logMessages.a[i].s
                  IN  Val(Str(SubSeq(m, Len(ProgramLogPrefix) + 1, Len(m))))

TokenAccountPaths ==
    [address |-> <<"pubkey">>,
     mint |-> <<"account", "data", "parsed", "info", "mint">>,
     owner |-> <<"account", "data", "parsed", "info", "owner">>,
     amount |-> <<"account", "data", "parsed", "info", "tokenAmount", "amount">>,
     decimals |-> <<"account", "data", "parsed", "info", "tokenAmount", "decimals">>,
     state |-> <<"account", "data", "parsed", "info", "state">>]

ValidatorPaths ==
    [identity |-> <<"nodePubkey">>, voteAccount |-> <<"votePubkey">>,
     commission |-> <<"commission">>, lastVote |-> <<"lastVote">>,
     rootSlot |-> <<"rootSlot">>, credits |-> <<"credits">>,
     epochCredits |-> <<"epochCredits">>,
     activatedStake |-> <<"activatedStake">>, version |-> <<"version">>,
     delinquent |-> <<"delinquent">>]

StakeAccountPaths ==
    [address |-> <<"pubkey">>,
     stake |-> <<"account", "lamports">>,
     activationEpoch |-> <<"account", "data", "parsed", "info", "stake",
                           "delegation", "activationEpoch">>,
     deactivationEpoch |-> <<"account", "data", "parsed", "info", "stake",
                             "delegation", "deactivationEpoch">>,
     voter |-> <<"account", "data", "parsed", "info", "stake", "delegation",
                 "voter">>,
     withdrawer |-> <<"account", "data", "parsed", "info", "withdrawer">>,
     staker |-> <<"account", "data", "parsed", "info", "stake", "delegation",
                  "stake">>,
     rentExemptReserve |-> <<"account", "data", "parsed", "info",
                             "rentExemptReserve">>]

\* wsUrl: this.config.rpcUrl.replace('https://', 'wss://')
WsUrl(url) == IF url.scheme = "https" THEN Url("wss", url.rest) ELSE url

\* The value an RPC passthrough returns from the body `data`, after its
\* not-found check passed; or the error the reshaping throws.
Reshape(o, b, data, cfg) ==
    LET value == Get(data, "value")
    IN  CASE o.name = "getAccount" ->
                Val(Obj([publicKey |-> b.publicKey,
                         balance |-> Get(value, "lamports"),
                         isExecutable |-> Get(value, "executable"),
                         owner |-> Get(value, "owner"),
                         lamports |-> Get(value, "lamports")]))
          [] o.name = "getBalance" -> Val(value)
          [] o.name = "getTokenAccounts" ->
                IF Nullish(value) THEN Throw(TypeError)
                ELSE MapRows(value, TokenAccountPaths)
          [] o.name = "sendTransaction" ->
                Val(Obj([signature |-> value,
                         slot |-> Num(0),
                         blockTime |-> Num(0),
                         confirmationStatus |-> Processed]))
          [] o.name = "confirmTransaction" ->
                Val(Obj([signature |-> b.signature,
                         slot |-> Or(Get(First(value), "slot"), Num(0)),
                         blockTime |-> Or(Get(First(value), "blockTime"), Num(0)),
                         confirmationStatus |-> b.commitment,
                         err |-> Get(First(value), "err")]))
          [] o.name = "getTransaction" ->
                LET meta == Get(value, "meta")
                    memo == Memo(OptGet(meta, "logMessages"))
                IN  IF ~memo.ok THEN memo
                    ELSE Val(Obj([signature |-> b.signature,
                                  slot |-> Get(value, "slot"),
                                  blockTime |-> Get(value, "blockTime"),
                                  confirmationStatus |-> Confirmed,
                                  err |-> OptGet(meta, "err"),
                                  memo |-> memo.v]))
          [] o.name = "getProgram" ->
                Val(Obj([programId |-> b.programId,
                         data |-> Get(value, "data"),
                         owner |-> Get(value, "owner"),
                         executable |-> Get(value, "executable"),
                         rentEpoch |-> Get(value, "rentEpoch")]))
          [] o.name = "getBlock" ->
                Val(Obj([blockhash |-> Get(value, "blockhash"),
                         previousBlockhash |-> Get(value, "previousBlockhash"),
                         parentSlot |-> Get(value, "parentSlot"),
                         transactions |-> Or(Get(value, "transactions"),
                                             Arr(<<>>)),
                         rewards |-> Or(Get(value, "rewards"), Arr(<<>>)),
                         blockTime |-> Get(value, "blockTime"),
                         blockHeight |-> Get(value, "blockHeight")]))
          [] o.name = "getLatestBlockhash" ->
                GetPath(data, <<"value", "blockhash">>)
          [] o.name = "getClusterInfo" ->
                Val(Obj([name |-> Lit("Mainnet Beta"),
                         rpcUrl |-> cfg.rpcUrl,
                         wsUrl |-> WsUrl(cfg.rpcUrl),
                         explorerUrl |-> Lit("https://explorer.solana.com"),
                         commitment |-> Confirmed]))
          [] o.name = "getValidators" ->
                IF Nullish(value) \/ Nullish(Get(value, "current"))
                THEN Throw(TypeError)
                ELSE LET all == Concat(Get(value, "current"),
                                       Get(value, "delinquent"))
                     IN  IF ~all.ok THEN all
                         ELSE MapRows(all.v, ValidatorPaths)
          [] o.name = "getStakeAccounts" ->
                IF Nullish(value) THEN Throw(TypeError)
                ELSE MapRows(value, StakeAccountPaths)


(***************************************************************************)
(* One invocation, from the call to the settled promise.                   *)
(***************************************************************************)
Operations ==
    SolanaLicenseManagerOps \cup SolanaNFTManagerOps
        \cup SolanaDeFiManagerOps \cup RpcOps \cup DelegateOps

NoOp == [kind |-> "none"]
NoResponse == [t |-> "none"]
Pending == [kind |-> "pending"]
Returned(v) == [kind |-> "returned", value |-> v]
Threw(e) == [kind |-> "threw", error |-> e]

\* The operation whose body runs: a delegated facade operation runs the
\* manager's.
Callee(o) == IF o.kind = "delegate" THEN o.target ELSE o

\* The parameters of the body that runs, the facade having passed its own
\* parameters on in the order `forward`.
Bindings(o, positional) ==
    IF o.kind = "delegate"
    THEN Bind(o.target,
              [i \in 1..Len(o.forward) |-> Bind(o, positional)[o.forward[i]]])
    ELSE Bind(o, positional)

\* await fetch(url, options): the request goes out.
fetch_resend(requests, options) == Append(Append(requests, options), options)

fetch(requests, options) == Append(requests, options)

\* The try block up to the fetch: the error thrown, or nothing.
Validate(o, b) ==
    IF o.kind = "rest" THEN ManagerValidate(o, b) ELSE FacadeValidate(o, b)

\* The options of the request the operation issues.
Options(o, b, cfg) ==
    IF o.kind = "rest"
    THEN makeRequest_options(cfg, o.method, Endpoint(o, b), RequestData(o, b))
    ELSE makeRPCRequest_options(cfg, o.rpcMethod, RpcParams(o, b))

\* makeRequest of the manager the operation belongs to.
ManagerRequest(o, resp) ==
    CASE o.cls = "SolanaLicenseManager" -> SolanaLicenseManager_makeRequest(resp)
      [] o.cls = "SolanaNFTManager" -> SolanaNFTManager_makeRequest(resp)
      [] o.cls = "SolanaDeFiManager" -> SolanaDeFiManager_makeRequest(resp)

\* The try block from the fetch on: the value returned, or the error thrown.
Complete(o, b, resp, cfg) ==
    IF o.kind = "rest"
    THEN LET json == ManagerRequest(o, resp)
         IN  IF ~json.ok THEN json ELSE ManagerReturn(o, json.v)
    ELSE LET data == makeRPCRequest(resp)
         IN  IF ~data.ok THEN data
             ELSE IF ~NotFound(o, b, data.v).ok THEN NotFound(o, b, data.v)
             ELSE Reshape(o, b, data.v, cfg)

\* The catch clause of the operation.
Catch(o, b, error) ==
    IF o.kind = "rest" THEN ManagerCatch(o, error) ELSE FacadeCatch(o, b, error)


(***************************************************************************)
(* The inputs explored: the arguments a caller may give, by the type of    *)
(* the parameter, and the responses the network may give.                  *)
(***************************************************************************)
Rep(c, n) == [i \in 1..n |-> c]

KeyA == Str(Rep("7", MinKeyLength))
KeyB == Str(Rep("z", MaxKeyLength))
ShortKey == Str(Rep("7", MinKeyLength - 1))
LongKey == Str(Rep("z", MaxKeyLength + 1))
BadCharKey == Str(Rep("7", MinKeyLength - 1) \o <<"0">>)
Empty == Str(<<>>)
ValidKeys == {KeyA, KeyB}
MalformedKeys == {ShortKey, LongKey, BadCharKey}

Id1 == Str(<<"L", "1">>)
Amount1 == Str(<<"1", "0", "0", "0">>)
Sig1 == Str(<<"5", "s", "i", "g">>)
Reason1 == Str(<<"a", "b", "u", "s", "e">>)
Active == Str(<<"a", "c", "t", "i", "v", "e">>)
Inactive == Str(<<"i", "n", "a", "c", "t", "i", "v", "e">>)
Evm == Str(<<"e", "v", "m">>)

ArgValues(type) ==
    CASE type = "address" -> {Undefined, Empty} \cup MalformedKeys \cup ValidKeys
      [] type = "optaddress" -> {Undefined, Empty, BadCharKey, KeyB}
      [] type = "id" -> {Undefined, Empty, Id1}
      [] type = "amount" -> {Undefined, Empty, Amount1}
      [] type = "optstring" -> {Undefined, Reason1}
      [] type = "number" -> {Num(0 - 1), Num(0), Num(7)}
      [] type = "metadata" ->
            {Undefined, Obj(NoFields),
             Obj([platform |-> Evm, createdVia |-> Evm, tier |-> Id1])}
      [] type = "object" -> {Undefined, Obj([name |-> Id1, platform |-> Evm])}
      [] type = "updates" ->
            {Obj(NoFields), Obj([status |-> Inactive]), Obj([status |-> Active])}
      [] type = "filters" ->
            {Undefined, Obj(NoFields), Obj([seller |-> BadCharKey]),
             Obj([collection |-> ShortKey, seller |-> KeyA]),
             Obj([collection |-> KeyB, seller |-> KeyA, minPrice |-> Num(7)])}
      [] type = "transaction" -> {Sig1, Undefined}
      [] type = "signature" -> {Sig1, Empty}
      [] type = "commitment" -> {Undefined, Processed, Confirmed, Finalized}

\* The argument lists of a call: one value of its type per parameter.
RECURSIVE ArgTuples(_)
ArgTuples(types) ==
    IF types = <<>> THEN {<<>>}
    ELSE {<<v>> \o rest : v \in ArgValues(Head(types)),
                          rest \in ArgTuples(Tail(types))}

FetchFailed == [name |-> "TypeError", message |-> "fetch failed"]
TimeoutError == [name |-> "TimeoutError", message |-> "The operation timed out"]
SyntaxError == [name |-> "SyntaxError", message |-> "Unexpected token"]

Reject(cause) == [t |-> "reject", cause |-> cause]
Http(status, body) ==
    [t |-> "http", ok |-> status \in 200..299, status |-> status, body |-> body]

SampleData ==
    Obj([id |-> Id1, licenseKey |-> Id1, status |-> Active,
         valid |-> Bool(TRUE), success |-> Bool(TRUE),
         transactionSignature |-> Sig1])

RestBodies ==
    {Null, Obj(NoFields), Obj([data |-> Null]), Obj([data |-> Obj(NoFields)]),
     Obj([data |-> SampleData])}

RpcErrorBody == Obj([code |-> Num(0 - 32000), message |-> Reason1])

AccountInfo ==
    Obj([lamports |-> Num(5), executable |-> Bool(FALSE), owner |-> KeyB,
         data |-> Lit("base64"), rentEpoch |-> Num(1)])

ParsedAccount ==
    Obj([pubkey |-> KeyA,
         account |->
            Obj([lamports |-> Num(5),
                 data |-> Obj([parsed |-> Obj([info |->
                    Obj([mint |-> KeyB, owner |-> KeyA,
                         tokenAmount |-> Obj([amount |-> Amount1,
                                              decimals |-> Num(9)]),
                         state |-> Lit("initialized"),
                         withdrawer |-> KeyA,
                         rentExemptReserve |-> Num(1),
                         stake |-> Obj([delegation |->
                            Obj([activationEpoch |-> Num(1),
                                 deactivationEpoch |-> Num(2),
                                 voter |-> KeyB,
                                 stake |-> Num(5)])])])])])])])

VoteAccount ==
    Obj([nodePubkey |-> KeyA, votePubkey |-> KeyB, commission |-> Num(5)])

SignatureStatus ==
    Obj([slot |-> Num(9), confirmationStatus |-> Finalized, err |-> Null])

TransactionInfo ==
    Obj([slot |-> Num(9), blockTime |-> Num(7),
         meta |-> Obj([err |-> Null,
                       logMessages |->
                          Arr(<<Reason1, Str(ProgramLogPrefix \o <<"h", "i">>)>>)])])

\* The `value` fields an RPC body may carry, the first one well-formed.
RpcValues(o) ==
    CASE o.name \in {"getAccount", "getProgram"} -> <<AccountInfo>>
      [] o.name = "getBalance" -> <<Num(5), Num(0)>>
      [] o.name \in {"getTokenAccounts", "getStakeAccounts"} ->
            <<Arr(<<ParsedAccount>>), Arr(<<>>), Arr(<<Obj(NoFields)>>)>>
      [] o.name = "sendTransaction" -> <<Sig1>>
      [] o.name = "confirmTransaction" ->
            <<Arr(<<SignatureStatus>>), Arr(<<>>), Arr(<<Null>>),
              Arr(<<Obj([err |-> Obj([code |-> Num(1)])])>>)>>
      [] o.name = "getTransaction" ->
            <<TransactionInfo, Obj([slot |-> Num(9)])>>
      [] o.name = "getBlock" ->
            <<Obj([blockhash |-> Lit("hash"), parentSlot |-> Num(8)])>>
      [] o.name = "getLatestBlockhash" -> <<Obj([blockhash |-> Lit("hash")])>>
      [] o.name = "getClusterInfo" -> <<Arr(<<>>)>>
      [] o.name = "getValidators" ->
            <<Obj([current |-> Arr(<<VoteAccount>>),
                   delinquent |-> Arr(<<VoteAccount>>)]),
              Obj([current |-> Arr(<<VoteAccount>>)])>>

RpcBodies(o) ==
    {Null, Obj(NoFields), Obj([value |-> Null]),
     Obj([error |-> RpcErrorBody]),
     Obj([error |-> RpcErrorBody, value |-> RpcValues(o)[1]])}
        \cup {Obj([value |-> v]) : v \in Range(RpcValues(o))}

Bodies(o) == IF o.kind = "rest" THEN RestBodies ELSE RpcBodies(o)

\* What fetch may do for a request of operation o: reject (the transport
\* failed, or the timeout signal aborted it), or resolve with a response.
Responses(o) ==
    {Reject(FetchFailed), Reject(TimeoutError),
     Http(404, Throw(SyntaxError)), Http(200, Throw(SyntaxError))}
        \cup {Http(500, Val(CHOOSE body \in Bodies(o) :
                               body.t = "object" /\ DOMAIN body.f # {}))}
        \cup {Http(200, Val(body)) : body \in Bodies(o)}

UserConfigs ==
    {[apiKey |-> "key-1"],
     [apiKey |-> "key-2", baseUrl |-> Url("https", "api.licensechain.app"),
      rpcUrl |-> Url("http", "localhost:8899"), timeout |-> 5000,
      retries |-> 0]}

(***************************************************************************)
(* The state machine.                                                      *)
(***************************************************************************)
\* A client just constructed: no operation invoked yet.
Constructed ==
    /\ config \in {LicenseChainSolana_constructor(u) : u \in UserConfigs}
    /\ pc = "idle"
    /\ op = NoOp
    /\ args = <<>>
    /\ mgrArgs = NoFields
    /\ sent = <<>>
    /\ response = NoResponse
    /\ raised = NoError
    /\ outcome = Pending

\* The two invocations that may be in flight together, and one not started.
Slots == {"first", "second"}

NoCall ==
    [pc |-> "idle", op |-> NoOp, args |-> <<>>, sent |-> <<>>,
     response |-> NoResponse, outcome |-> Pending, expired |-> FALSE,
     overlapped |-> FALSE]

\* retry not called; no utility called.
NoRetry == [pc |-> "idle"]

NoProbe == [pc |-> "idle"]

Init ==
    /\ Constructed
    /\ license = Active
    /\ calls = [i \in Slots |-> NoCall]
    /\ retrying = NoRetry
    /\ probe = NoProbe

\* The caller invokes operation o with the arguments a: the body runs up to
\* its fetch, or to the error its checks throw.
Invoke(o, a) ==
    /\ pc = "idle"
    /\ op' = o
    /\ args' = a
    /\ mgrArgs' = Bindings(o, a)
    /\ response' = NoResponse
    /\ LET b == Bindings(o, a)
           checked == Validate(Callee(o), b)
       IN  IF checked.ok
           THEN /\ sent' = fetch(<<>>, Options(Callee(o), b, config))
                /\ raised' = NoError
                /\ outcome' = Pending
                /\ pc' = "awaiting"
           ELSE /\ sent' = <<>>
                /\ raised' = checked.e
                /\ outcome' = Threw(Catch(Callee(o), b, checked.e))
                /\ pc' = "done"
    /\ UNCHANGED <<config, beyond>>

\* fetch settles with r: the body runs from its fetch to its return, or to
\* its catch clause.
Settled(r) ==
    /\ response' = r
    /\ LET done == Complete(Callee(op), mgrArgs, r, config)
       IN  IF done.ok
           THEN /\ raised' = NoError
                /\ outcome' = Returned(done.v)
           ELSE /\ raised' = done.e
                /\ outcome' = Threw(Catch(Callee(op), mgrArgs, done.e))
    /\ pc' = "done"
    /\ UNCHANGED <<config, op, args, mgrArgs, sent>>

Receive ==
    /\ pc = "awaiting"
    /\ \E r \in Responses(Callee(op)) : Settled(r)
    /\ UNCHANGED beyond

\* The caller has the outcome; the client is ready for the next call.
Settle ==
    /\ pc = "done"
    /\ pc' = "idle"
    /\ op' = NoOp
    /\ args' = <<>>
    /\ mgrArgs' = NoFields
    /\ sent' = <<>>
    /\ response' = NoResponse
    /\ raised' = NoError
    /\ outcome' = Pending
    /\ UNCHANGED <<config, beyond>>

Next ==
    \/ \E o \in Operations : \E a \in ArgTuples(o.types) : Invoke(o, a)
    \/ Receive
    \/ Settle

Spec == Init /\ [][Next]_vars


(***************************************************************************)
(* Properties.                                                             *)
(***************************************************************************)
\* The error the caller received is of class `name` with code `code`.
Received(name, code) ==
    /\ outcome.kind = "threw"
    /\ outcome.error.name = name
    /\ outcome.error.code = code

\* The response is a 2xx one whose body parsed to a JSON object.
OkBody(r) == r.t = "http" /\ r.ok /\ r.body.ok /\ r.body.v.t = "object"

\* fetch rejected, or the status is not 2xx.
TransportFailure(r) == r.t = "reject" \/ (r.t = "http" /\ ~r.ok)

HasRpcError(r) == ~Falsy(Get(r.body.v, "error"))

RpcValue(r) == Get(r.body.v, "value")

\* The address-shaped arguments of a call of o: the parameters typed as
\* addresses (an optional one only when given) and the address-shaped
\* fields of a filters argument.
AddressArguments(o, b) ==
    {b[o.params[i]] : i \in {j \in 1..Len(o.params) : o.types[j] = "address"}}
        \cup {b[o.params[i]] :
                i \in {j \in 1..Len(o.params) :
                         o.types[j] = "optaddress" /\ ~Falsy(b[o.params[j]])}}
        \cup UNION {{Get(b[o.params[i]], k) : k \in {"collection", "seller"}}
                        \ {Undefined} :
                      i \in {j \in 1..Len(o.params) : o.types[j] = "filters"}}

\* The required inputs of a call of o: the parameters that are not
\* optional in the signature.
RequiredTypes == {"address", "id", "amount", "signature", "transaction"}

RequiredArguments(o, b) ==
    {b[o.params[i]] :
        i \in {j \in 1..Len(o.params) : o.types[j] \in RequiredTypes}}

\* C1: when a step of an operation raises an already-typed SDK error, the
\* caller receives that same error, kind and code unchanged.
C1_TypedErrorsPassThrough ==
    (pc = "done" /\ InstanceOfSolanaError(raised)) => outcome = Threw(raised)

\* C2: a request is issued only after every address-shaped argument,
\* address-shaped filter fields included, has passed validatePublicKey.
C2_RequestOnlyAfterAddressValidation ==
    sent # <<>> =>
        \A v \in AddressArguments(op, Bind(op, args)) : validatePublicKey(v)

\* C3: when a required input is missing or an address-shaped input is
\* malformed, the caller receives a ValidationError with code
\* VALIDATION_ERROR.
C3_InvalidInputIsValidationError ==
    (/\ pc = "done"
     /\ \/ \E v \in RequiredArguments(op, Bind(op, args)) : Nullish(v)
        \/ \E v \in AddressArguments(op, Bind(op, args)) : ~validatePublicKey(v))
        => Received("SolanaValidationError", "VALIDATION_ERROR")

\* A direct call of manager operation o with the arguments a: the requests
\* it sends and, once fetch has settled with r, its outcome.
DirectSent(o, a) ==
    IF Validate(o, Bind(o, a)).ok
    THEN fetch(<<>>, Options(o, Bind(o, a), config))
    ELSE <<>>

DirectOutcome(o, a, r) ==
    LET b == Bind(o, a)
    IN  IF ~Validate(o, b).ok THEN Threw(Catch(o, b, Validate(o, b).e))
        ELSE IF r = NoResponse THEN Pending
        ELSE IF Complete(o, b, r, config).ok
        THEN Returned(Complete(o, b, r, config).v)
        ELSE Threw(Catch(o, b, Complete(o, b, r, config).e))

\* C4: a delegated facade operation forwards its arguments verbatim: each
\* parameter the manager operation shares with it (the owner of
\* addLiquidity among them) has the value the facade was given, and the
\* requests and the outcome are those of a direct call of the manager.
C4_DelegationForwardsVerbatim ==
    op.kind = "delegate" =>
        /\ \A p \in Range(op.params) \cap Range(op.target.params) :
                mgrArgs[p] = Bind(op, args)[p]
        /\ sent = DirectSent(op.target, args)
        /\ pc = "done" => outcome = DirectOutcome(op.target, args, response)

\* C5: in every RPC passthrough whose request went out, the failure checks
\* apply in order: a non-2xx status gives NetworkError; else an `error`
\* field gives RPCError with the error's code as rpcCode; else a missing or
\* null `value` gives an error; only otherwise is an entity returned.
C5_RpcFailureOrder ==
    (pc = "done" /\ op.kind = "rpc" /\ response.t = "http") =>
        IF ~response.ok
        THEN Received("SolanaNetworkError", "NETWORK_ERROR")
        ELSE OkBody(response) =>
                IF HasRpcError(response)
                THEN /\ Received("SolanaRPCError", "RPC_ERROR")
                     /\ outcome.error.ctx =
                            Get(Get(response.body.v, "error"), "code")
                ELSE IF Nullish(RpcValue(response))
                THEN outcome.kind = "threw"
                ELSE TRUE

\* The case of C6: getAccount or getProgram with a valid key, the 2xx body
\* carrying no `error` and a null or missing `value`.
C6_Case ==
    /\ pc = "done"
    /\ op.kind = "rpc"
    /\ op.name \in {"getAccount", "getProgram"}
    /\ validatePublicKey(args[1])
    /\ OkBody(response)
    /\ ~HasRpcError(response)
    /\ Nullish(RpcValue(response))

\* C6: getAccount and getProgram with a valid key and a null or missing
\* `value` raise AccountError, code ACCOUNT_ERROR, whose account is the
\* queried key; no entity is returned.
C6_AccountNotFound ==
    C6_Case =>
        /\ Received("SolanaAccountError", "ACCOUNT_ERROR")
        /\ outcome.error.ctx = args[1]

C6_Witness ==
    /\ C6_Case
    /\ op.name = "getAccount"
    /\ response.body.v = Obj([value |-> Null])
    /\ outcome.kind = "threw"

TransactionOps == {"sendTransaction", "confirmTransaction", "getTransaction"}

\* The call failed: the transport, the status, the parse of the body, or
\* a JSON-RPC error.
RpcCallFailed(r) ==
    \/ TransportFailure(r)
    \/ ~r.body.ok
    \/ Nullish(r.body.v)
    \/ HasRpcError(r)

\* The transaction looked up was not found: getTransaction got a null
\* `value`, confirmTransaction a null status entry for the signature.
TransactionNotFound(o, r) ==
    /\ OkBody(r)
    /\ ~HasRpcError(r)
    /\ \/ o.name = "getTransaction" /\ Nullish(RpcValue(r))
       \/ /\ o.name = "confirmTransaction"
          /\ RpcValue(r).t = "array"
          /\ Nullish(First(RpcValue(r)))

C8_ManagerNetworkError ==
    (pc = "done" /\ Callee(op).kind = "rest" /\ response # NoResponse
        /\ TransportFailure(response))
        => Received("SolanaNetworkError", "NETWORK_ERROR")

C8_Witness ==
    /\ pc = "done"
    /\ op = SolanaLicenseManager_validateLicense
    /\ response.t = "http"
    /\ response.status = 500
    /\ outcome.kind = "threw"

\* C9: an invocation issues at most one request, whatever `retries` is
\* and however the request ends: exactly one when the local checks pass,
\* none when they fail.
C9_AtMostOneRequest ==
    /\ Len(sent) <= 1
    /\ pc \in {"awaiting", "done"} =>
          Len(sent) = IF Validate(Callee(op), mgrArgs).ok THEN 1 ELSE 0

C9_Witness ==
    /\ pc = "done"
    /\ config.retries = DefaultRetries
    /\ response # NoResponse
    /\ TransportFailure(response)
    /\ Len(sent) = 1

\* C10 as first stated: in every manager operation a 2xx body without the
\* `data` field is raised as a base SDK error with the operation's code and
\* the cause as details.
C10_MissingDataAlwaysRaises ==
    (pc = "done" /\ Callee(op).kind = "rest" /\ OkBody(response)
        /\ Nullish(Get(response.body.v, "data")))
        => /\ Received("SolanaError", Callee(op).code)
           /\ outcome.error.details = raised

\* C10: in every manager operation, a failure raised inside the operation
\* that is not an SDK error (a read on a null body, or of a sub-field of a
\* missing `data`) reaches the caller as a base SDK error with the
\* operation's code and the cause as details; an operation that returns
\* `data` itself returns undefined for a 2xx body without `data`.
C10_NonSdkFailureWrapped ==
    (pc = "done" /\ Callee(op).kind = "rest") =>
        /\ (raised # NoError /\ ~InstanceOfSolanaError(raised)) =>
              /\ Received("SolanaError", Callee(op).code)
              /\ outcome.error.details = raised
        /\ (OkBody(response) /\ Nullish(Get(response.body.v, "data"))) =>
              IF Callee(op).result = ""
              THEN outcome = Returned(Get(response.body.v, "data"))
              ELSE /\ Received("SolanaError", Callee(op).code)
                   /\ outcome.error.details = TypeError

C10_Witness ==
    /\ pc = "done"
    /\ op = SolanaDeFiManager_addLiquidity
    /\ response = Http(200, Val(Obj(NoFields)))
    /\ raised = TypeError
    /\ outcome.kind = "threw"

\* The `data` of a 2xx body that has the field.
HasData(r) == OkBody(r) /\ "data" \in DOMAIN r.body.v.f

Suspended == Str(<<"s", "u", "s", "p", "e", "n", "d", "e", "d">>)
Expired == Str(<<"e", "x", "p", "i", "r", "e", "d">>)

LicenseStatusOps ==
    {SolanaLicenseManager_updateLicense, SolanaLicenseManager_suspendLicense,
     SolanaLicenseManager_unsuspendLicense, LicenseChainSolana_updateLicense}

\* The status the request of operation o asks the backend to give the
\* license: undefined when it asks for none.
Asked(o, b) ==
    CASE o.name = "updateLicense" -> Get(b.updates, "status")
      [] o.name = "suspendLicense" -> Suspended
      [] o.name = "unsuspendLicense" -> Active
      [] OTHER -> Undefined

\* The backend answers: with a 2xx status it has given license L1 the status
\* it was asked for.
LicenseReceive ==
    /\ pc = "awaiting"
    /\ \E r \in Responses(Callee(op)) :
          /\ Settled(r)
          /\ license' =
                IF /\ r.t = "http" /\ r.ok
                   /\ mgrArgs.licenseId = Id1
                   /\ Asked(Callee(op), mgrArgs) # Undefined
                THEN Asked(Callee(op), mgrArgs)
                ELSE license
    /\ UNCHANGED <<calls, retrying, probe>>

\* An active license runs out.
Expire ==
    /\ pc = "idle"
    /\ license = Active
    /\ license' = Expired
    /\ UNCHANGED <<client, calls, retrying, probe>>

LicenseNext ==
    \/ \E o \in LicenseStatusOps : \E a \in ArgTuples(o.types) : Invoke(o, a)
    \/ LicenseReceive
    \/ Settle
    \/ Expire

LicenseSpec == Init /\ [][LicenseNext]_vars

\* The transitions of the license state machine an operation may ask for.
PermittedTransitions ==
    {<<Active, Suspended, "suspendLicense">>,
     <<Active, Inactive, "updateLicense">>,
     <<Suspended, Active, "unsuspendLicense">>}

\* C12: the SDK lets through only the permitted status transitions: a
\* request on license L1 goes out only if the status it asks for is the
\* one an updateLicense finds, or a permitted transition from the status
\* the license has.
C12_OnlyPermittedTransitions ==
    (/\ pc = "awaiting"
     /\ Callee(op) \in LicenseStatusOps
     /\ mgrArgs.licenseId = Id1
     /\ Asked(Callee(op), mgrArgs) # Undefined)
        => \/ /\ Callee(op).name = "updateLicense"
              /\ Asked(Callee(op), mgrArgs) = license
           \/ <<license, Asked(Callee(op), mgrArgs), Callee(op).name>>
                 \in PermittedTransitions

\* C13: when the timeout expires before the response has arrived (the
\* timeout signal makes fetch reject), the operation raises NetworkError or
\* TimeoutError and returns no result.
C13_TimeoutRaisesNetworkError ==
    (pc = "done" /\ response = Reject(TimeoutError)) =>
        /\ outcome.kind = "threw"
        /\ outcome.error.name \in {"SolanaNetworkError", "SolanaTimeoutError"}

(***************************************************************************)
(* Two operations in flight on one client.  Each async call runs on its    *)
(* own; makeRequest and makeRPCRequest build a timeout signal of their own *)
(* for every request.                                                      *)
(***************************************************************************)
\* The calls explored side by side.
ConcurrentCalls ==
    {<<LicenseChainSolana_getAccount, <<KeyA>>>>,
     <<LicenseChainSolana_getBalance, <<KeyB>>>>,
     <<LicenseChainSolana_getBalance, <<ShortKey>>>>,
     <<SolanaLicenseManager_validateLicense, <<Id1>>>>,
     <<LicenseChainSolana_createLicense, <<Id1, Id1, Undefined>>>>}

\* What the caller of operation o with the arguments a receives, fetch
\* having settled with r (or not yet settled).
Outcome(o, a, r, cfg) ==
    LET c == Callee(o)
        b == Bindings(o, a)
    IN  IF ~Validate(c, b).ok THEN Threw(Catch(c, b, Validate(c, b).e))
        ELSE IF r = NoResponse THEN Pending
        ELSE IF Complete(c, b, r, cfg).ok
        THEN Returned(Complete(c, b, r, cfg).v)
        ELSE Threw(Catch(c, b, Complete(c, b, r, cfg).e))

\* The requests operation o issues when called with the arguments a.
Requests(o, a, cfg) ==
    IF Validate(Callee(o), Bindings(o, a)).ok
    THEN fetch(<<>>, Options(Callee(o), Bindings(o, a), cfg))
    ELSE <<>>

InFlight(i) == calls[i].pc = "awaiting"

\* signal: AbortSignal.timeout(this.config.timeout): the requests the expiry
\* of the timeout of request i aborts.
AbortSignal_shared(i) == Slots

AbortSignal_timeout(i) == {i}

\* The caller starts a call in slot i.
Start(i, o, a) ==
    /\ calls[i].pc = "idle"
    /\ LET requests == Requests(o, a, config)
           overlap == requests # <<>> /\ \E j \in Slots \ {i} : InFlight(j)
       IN  calls' =
             [j \in Slots |->
                IF j = i
                THEN [pc |-> IF requests = <<>> THEN "done" ELSE "awaiting",
                      op |-> o, args |-> a, sent |-> requests,
                      response |-> NoResponse,
                      outcome |-> Outcome(o, a, NoResponse, config),
                      expired |-> FALSE, overlapped |-> overlap]
                ELSE [calls[j] EXCEPT
                        !.overlapped = @ \/ (overlap /\ InFlight(j))]]
    /\ UNCHANGED <<client, license, retrying, probe>>

\* The fetch of call i settles, before its timeout.
Deliver(i) ==
    /\ InFlight(i)
    /\ \E r \in Responses(Callee(calls[i].op)) \ {Reject(TimeoutError)} :
          calls' = [calls EXCEPT
                      ![i].pc = "done", ![i].response = r,
                      ![i].outcome =
                          Outcome(calls[i].op, calls[i].args, r, config)]
    /\ UNCHANGED <<client, license, retrying, probe>>

\* The timeout of request i expires: the fetch it aborts rejects.
Timeout(i) ==
    /\ InFlight(i)
    /\ calls' =
          [j \in Slots |->
             IF j \in AbortSignal_timeout(i) /\ InFlight(j)
             THEN [calls[j] EXCEPT
                     !.pc = "done",
                     !.response = Reject(TimeoutError),
                     !.expired = (j = i),
                     !.outcome = Outcome(calls[j].op, calls[j].args,
                                         Reject(TimeoutError), config)]
             ELSE calls[j]]
    /\ UNCHANGED <<client, license, retrying, probe>>

\* The caller of call i has its outcome.
Finish(i) ==
    /\ calls[i].pc = "done"
    /\ calls' = [calls EXCEPT ![i] = NoCall]
    /\ UNCHANGED <<client, license, retrying, probe>>

ConcurrentNext ==
    \/ \E i \in Slots : \E c \in ConcurrentCalls : Start(i, c[1], c[2])
    \/ \E i \in Slots : Deliver(i)
    \/ \E i \in Slots : Timeout(i)
    \/ \E i \in Slots : Finish(i)

ConcurrentSpec == Init /\ [][ConcurrentNext]_vars

\* C14: with two operations in flight on one client, under every
\* interleaving, the outcome of each is the one its own arguments and its
\* own response give, and a call ends by timeout only when its own timeout
\* has expired: the other's timeout or failure neither aborts it nor
\* changes its result.
C14_CallsIndependent ==
    \A i \in Slots :
        calls[i].pc # "idle" =>
            /\ calls[i].sent = Requests(calls[i].op, calls[i].args, config)
            /\ calls[i].outcome =
                  Outcome(calls[i].op, calls[i].args, calls[i].response, config)
            /\ calls[i].response = Reject(TimeoutError) => calls[i].expired
            /\ InFlight(i) => calls[i].response = NoResponse

C14_Witness ==
    /\ calls["first"].overlapped
    /\ calls["first"].pc = "done"
    /\ calls["first"].expired
    /\ calls["second"].overlapped
    /\ calls["second"].pc = "done"
    /\ calls["second"].outcome.kind = "returned"

\* The code an error of class `name` leaving operation o carries.
CodeOf(name, o) ==
    CASE name = "SolanaNetworkError" -> "NETWORK_ERROR"
      [] name = "SolanaRPCError" -> "RPC_ERROR"
      [] name = "SolanaTransactionError" -> "TRANSACTION_ERROR"
      [] name = "SolanaAccountError" -> "ACCOUNT_ERROR"
      [] name = "SolanaValidationError" -> "VALIDATION_ERROR"
      [] OTHER -> o.code

\* C15: every failure that leaves a public operation is an instance of
\* the base SDK error, with a non-empty code fixed by its kind or by the
\* operation; no untyped runtime error escapes.
C15_FailuresAreTyped ==
    (pc = "done" /\ outcome.kind = "threw") =>
        /\ InstanceOfSolanaError(outcome.error)
        /\ outcome.error.code # ""
        /\ outcome.error.code = CodeOf(outcome.error.name, Callee(op))

C15_Witness ==
    /\ pc = "done"
    /\ op = LicenseChainSolana_getTokenAccounts
    /\ raised = TypeError
    /\ outcome.kind = "threw"
    /\ outcome.error.code = "ACCOUNT_ERROR"

(***************************************************************************)
(* retry(fn, maxRetries = 3, delay = 1000).  The record `retrying` holds   *)
(* the closure of one call: the parameters, `attempts`, and what the       *)
(* promise and the timers have seen.  Time is in milliseconds.             *)
(***************************************************************************)
DefaultMaxRetries == 3
DefaultDelay == 1000

\* The largest maxRetries explored.
MaxAttemptsBound == 4

\* The values of maxRetries and of delay a caller may give.
MaxRetriesValues == {Undefined} \cup {Num(n) : n \in 0..MaxAttemptsBound}
DelayValues == {Undefined, Num(0), Num(250)}

\* How long an invocation of fn may take, how late a timer may fire, and
\* what fn may throw or return.
FnDurations == {0, 40}
TimerLags == {0, 1}
FnErrors == {[name |-> "Error", message |-> "first"],
             [name |-> "Error", message |-> "second"]}
FnValue == Str(<<"o", "k">>)

\* A parameter with a default value.
Default(v, d) == IF v = Undefined THEN Num(d) ELSE v

\* if (attempts >= maxRetries)
Exhausted_early(attempts, maxRetries) == attempts + 1 >= maxRetries

Exhausted_strict(attempts, maxRetries) == attempts > maxRetries

Exhausted(attempts, maxRetries) == attempts >= maxRetries

\* delay * attempts
Backoff_constant(delay, attempts) == delay

Backoff(delay, attempts) == delay * attempts

\* reject(error): the error of the catch clause that rejects, the last of
\* the errors fn has thrown.
Rejection_first(failed) == failed[1].error

Rejection(failed) == failed[Len(failed)].error

\* resolve(value) and reject(error) settle a promise that is pending and
\* leave a settled one as it is.
SettleWith(result, settlement) ==
    IF result = Pending THEN settlement ELSE result

\* if (attempts >= maxRetries) reject(error); else setTimeout(attempt, wait):
\* the timers set so far, after the catch clause.
Scheduled_always(timers, exhausted, wait) == Append(timers, wait)

Scheduled(timers, exhausted, wait) ==
    IF exhausted THEN timers ELSE Append(timers, wait)

\* retry(fn, maxRetries, delay): the promise is created and attempt() runs
\* up to its `await fn()`.
RetryCall(maxRetries, delay) ==
    /\ retrying.pc = "idle"
    /\ retrying' =
          [pc |-> "running",
           maxRetries |-> Default(maxRetries, DefaultMaxRetries).n,
           delay |-> Default(delay, DefaultDelay).n,
           attempts |-> 0, invocations |-> 1, inflight |-> 1,
           now |-> 0, started |-> <<0>>, failed |-> <<>>, timers |-> <<>>,
           pending |-> 0, settlements |-> 0, result |-> Pending]
    /\ UNCHANGED <<client, license, calls, probe>>

\* fn() resolves after d: resolve(result).
FnResolves(d) ==
    /\ retrying.pc = "running"
    /\ retrying' = [retrying EXCEPT !.pc = "resolved",
                                    !.inflight = @ - 1,
                                    !.now = @ + d,
                                    !.settlements = @ + 1,
                                    !.result = SettleWith(@, Returned(FnValue))]
    /\ UNCHANGED <<client, license, calls, probe>>

\* fn() rejects with e after d: the catch clause counts the attempt and
\* either rejects or sets the timer of the next attempt.
FnRejects(e, d) ==
    /\ retrying.pc = "running"
    /\ LET attempts == retrying.attempts + 1
           failed == Append(retrying.failed,
                            [at |-> retrying.now + d, error |-> e])
           after == [retrying EXCEPT !.attempts = attempts,
                                     !.inflight = @ - 1,
                                     !.now = @ + d,
                                     !.failed = failed]
           exhausted == Exhausted(attempts, retrying.maxRetries)
           timers == Scheduled(retrying.timers, exhausted,
                               Backoff(retrying.delay, attempts))
           set == [after EXCEPT !.timers = timers,
                                !.pending = @ + Len(timers)
                                                - Len(retrying.timers)]
       IN  retrying' =
             IF exhausted
             THEN [set EXCEPT !.pc = "rejected",
                              !.settlements = @ + 1,
                              !.result = SettleWith(@, Threw(Rejection(failed)))]
             ELSE [set EXCEPT !.pc = "waiting"]
    /\ UNCHANGED <<client, license, calls, probe>>

\* A timer set by setTimeout(attempt, ...) fires, its delay elapsed:
\* attempt() runs up to its `await fn()`.
TimerFires(lag) ==
    /\ retrying.pc \notin {"idle", "running"}
    /\ retrying.pending > 0
    /\ retrying.invocations <= MaxAttemptsBound
    /\ LET due == retrying.now + retrying.timers[Len(retrying.timers)] + lag
       IN  retrying' = [retrying EXCEPT !.pc = "running",
                                        !.pending = @ - 1,
                                        !.invocations = @ + 1,
                                        !.inflight = @ + 1,
                                        !.now = due,
                                        !.started = Append(@, due)]
    /\ UNCHANGED <<client, license, calls, probe>>

\* The caller has the settled promise, and nothing of the call is left to
\* run.
RetryDone ==
    /\ retrying.pc \in {"resolved", "rejected"}
    /\ retrying.pending = 0
    /\ retrying' = NoRetry
    /\ UNCHANGED <<client, license, calls, probe>>

RetryNext ==
    \/ \E m \in MaxRetriesValues : \E d \in DelayValues : RetryCall(m, d)
    \/ \E d \in FnDurations : FnResolves(d)
    \/ \E e \in FnErrors : \E d \in FnDurations : FnRejects(e, d)
    \/ \E lag \in TimerLags : TimerFires(lag)
    \/ RetryDone

RetrySpec == Init /\ [][RetryNext]_vars

\* Every invocation of fn terminates, and a timer that is set fires.
RetryFairSpec ==
    /\ RetrySpec
    /\ WF_vars((\E d \in FnDurations : FnResolves(d))
                 \/ (\E e \in FnErrors : \E d \in FnDurations : FnRejects(e, d)))
    /\ WF_vars(\E lag \in TimerLags : TimerFires(lag))

RetrySettled == retrying.pc \in {"resolved", "rejected"}

\* C16: for maxAttempts >= 1, an operation that always fails is invoked
\* exactly maxAttempts times before retry rejects, and one that first
\* succeeds on invocation k <= maxAttempts is invoked exactly k times,
\* retry resolving with its value (maxAttempts = 3, two failures, then
\* success: 3 invocations).
C16_InvocationCount ==
    (RetrySettled /\ retrying.maxRetries >= 1) =>
        /\ retrying.invocations <= retrying.maxRetries
        /\ retrying.pc = "rejected" =>
              /\ retrying.invocations = retrying.maxRetries
              /\ Len(retrying.failed) = retrying.maxRetries
        /\ retrying.pc = "resolved" =>
              /\ retrying.invocations = Len(retrying.failed) + 1
              /\ retrying.result = Returned(FnValue)

C16_Witness ==
    /\ retrying.pc = "resolved"
    /\ retrying.maxRetries = 3
    /\ Len(retrying.failed) = 2
    /\ retrying.invocations = 3
    /\ retrying.result = Returned(FnValue)

\* C17: with maxAttempts = 0 or 1 retry invokes the operation exactly
\* once: it resolves with its value, or rejects with its error, without
\* a wait and without a second invocation.
C17_AtLeastOneAttempt ==
    (retrying.pc # "idle" /\ retrying.maxRetries \in {0, 1}) =>
        /\ retrying.invocations = 1
        /\ retrying.timers = <<>>
        /\ retrying.pc # "waiting"
        /\ retrying.pc = "resolved" => retrying.result = Returned(FnValue)
        /\ retrying.pc = "rejected" =>
              retrying.result = Threw(retrying.failed[1].error)

C17_Witness ==
    /\ retrying.pc = "rejected"
    /\ retrying.maxRetries = 0
    /\ retrying.invocations = 1
    /\ retrying.result.kind = "threw"

\* C18: invocation n+1 starts only after invocation n has failed and a
\* wait of delay * n has then elapsed (linear backoff), and two
\* invocations are never in flight together.
C18_LinearBackoff ==
    retrying.pc # "idle" =>
        /\ retrying.inflight <= 1
        /\ Len(retrying.failed) >= Len(retrying.started) - 1
        /\ \A n \in 1..Len(retrying.timers) : retrying.timers[n] = retrying.delay * n
        /\ \A n \in 1..(Len(retrying.started) - 1) :
              retrying.started[n + 1] >= retrying.failed[n].at + retrying.delay * n

C18_Witness ==
    /\ retrying.pc = "running"
    /\ retrying.delay = 250
    /\ Len(retrying.started) = 3
    /\ retrying.failed[1].at = 40
    /\ retrying.timers = <<250, 500>>
    /\ retrying.started[3] = 830

\* C19: when every attempt fails, retry rejects with the error of the
\* last invocation, itself and not a wrapper, and only once that
\* invocation has failed.
C19_LastErrorSurfaces ==
    retrying.pc = "rejected" =>
        /\ retrying.result = Threw(retrying.failed[Len(retrying.failed)].error)
        /\ Len(retrying.failed) = retrying.invocations
        /\ retrying.inflight = 0

C19_Witness ==
    /\ retrying.pc = "rejected"
    /\ Len(retrying.failed) = 3
    /\ retrying.failed[1].error # retrying.failed[3].error
    /\ retrying.result = Threw(retrying.failed[3].error)

(***************************************************************************)
(* The pure utilities, applied to inputs drawn at the start.               *)
(***************************************************************************)
\* Characters at the edges of the base58 ranges, the four characters the
\* alphabet leaves out, and characters that are no letters or digits.
KeyChars ==
    {"1", "9", "A", "H", "J", "N", "P", "Z", "a", "k", "m", "z",
     "0", "O", "I", "l", "-", " ", "_"}

\* s with the character at position k replaced by c.
ReplaceAt(s, k, c) == [i \in 1..Len(s) |-> IF i = k THEN c ELSE s[i]]

KeyInputs ==
    {Undefined, Null, Num(0), Num(7), Bool(TRUE), Obj(NoFields), Arr(<<>>)}
        \cup {Str(Rep(c, n)) : c \in KeyChars, n \in 0..(MaxKeyLength + 2)}
        \cup {Str(ReplaceAt(Rep("7", n), k, c)) :
                n \in {MinKeyLength, MaxKeyLength},
                k \in {1, 2, MinKeyLength},
                c \in KeyChars}

(***************************************************************************)
(* parseUnits and formatUnits.  A bigint is an integer; the strings        *)
(* explored are made of digits, a sign and the decimal point.              *)
(***************************************************************************)
DefaultDecimals == 9

\* The largest `decimals` given explicitly.
MaxDecimals == 3

Digits == <<"0", "1", "2", "3", "4", "5", "6", "7", "8", "9">>

IsDigit(c) == \E n \in 1..10 : Digits[n] = c

DigitValue(c) == (CHOOSE n \in 1..10 : Digits[n] = c) - 1

BigIntValue(n) == [t |-> "bigint", n |-> n]

\* s.split(sep)
RECURSIVE Split(_, _)
Split(s, sep) ==
    IF \A i \in 1..Len(s) : s[i] # sep THEN <<s>>
    ELSE LET k == CHOOSE i \in 1..Len(s) :
                     s[i] = sep /\ \A j \in 1..(i - 1) : s[j] # sep
         IN  <<SubSeq(s, 1, k - 1)>> \o Split(SubSeq(s, k + 1, Len(s)), sep)

\* s.padEnd(n, c), s.padStart(n, c) and s.slice(0, n) for n >= 0
PadEnd(s, n, c) == IF Len(s) >= n THEN s ELSE s \o Rep(c, n - Len(s))
PadStart(s, n, c) == IF Len(s) >= n THEN s ELSE Rep(c, n - Len(s)) \o s
Slice(s, n) == IF Len(s) <= n THEN s ELSE SubSeq(s, 1, n)

\* s.replace(/0+$/, '')
RECURSIVE TrimZeros(_)
TrimZeros(s) ==
    IF s # <<>> /\ s[Len(s)] = "0" THEN TrimZeros(SubSeq(s, 1, Len(s) - 1))
    ELSE s

\* The number a sequence of digits writes.
RECURSIVE Decimal(_)
Decimal(s) ==
    IF s = <<>> THEN 0
    ELSE 10 * Decimal(SubSeq(s, 1, Len(s) - 1)) + DigitValue(s[Len(s)])

BigIntSyntaxError == [name |-> "SyntaxError", message |-> "Cannot convert to a BigInt"]

\* BigInt(s): the empty string is 0n, an optional sign before digits is
\* read, anything else throws SyntaxError.
BigInt(s) ==
    LET signed == s # <<>> /\ s[1] \in {"-", "+"}
        body == IF signed THEN Tail(s) ELSE s
    IN  IF s = <<>> THEN Val(0)
        ELSE IF body = <<>> \/ \E i \in 1..Len(body) : ~IsDigit(body[i])
             THEN Throw(BigIntSyntaxError)
        ELSE Val(IF s[1] = "-" THEN 0 - Decimal(body) ELSE Decimal(body))

\* n.toString() of a bigint
RECURSIVE ToDigits(_)
ToDigits(n) ==
    IF n < 10 THEN <<Digits[n + 1]>>
    ELSE ToDigits(n \div 10) \o <<Digits[(n % 10) + 1]>>

BigIntToString(n) == IF n < 0 THEN <<"-">> \o ToDigits(0 - n) ELSE ToDigits(n)

\* a / b and a % b of bigints, b > 0: the quotient is truncated toward
\* zero and the remainder has the sign of a.
Quotient(a, b) == IF a >= 0 THEN a \div b ELSE 0 - ((0 - a) \div b)
Remainder(a, b) == a - b * Quotient(a, b)

\* 10 ** decimals
RECURSIVE Pow10(_)
Pow10(n) == IF n = 0 THEN 1 ELSE 10 * Pow10(n - 1)

parseUnits(value, decimals) ==
    LET d == Default(decimals, DefaultDecimals).n
        parts == Split(value.s, ".")
        integer == parts[1]
        fraction == IF Len(parts) >= 2 THEN parts[2] ELSE <<>>
        paddedFraction == Slice(PadEnd(fraction, d, "0"), d)
        parsed == BigInt(integer \o paddedFraction)
    IN  IF parsed.ok THEN Val(BigIntValue(parsed.v)) ELSE parsed

formatUnits(value, decimals) ==
    LET d == Default(decimals, DefaultDecimals).n
        converted == IF value.t = "string" THEN BigInt(value.s) ELSE Val(value.n)
    IN  IF ~converted.ok THEN converted
        ELSE
        LET bigintValue == converted.v
            divisor == Pow10(d)
            quotient == Quotient(bigintValue, divisor)
            remainder == Remainder(bigintValue, divisor)
            remainderStr == PadStart(BigIntToString(remainder), d, "0")
            trimmedRemainder == TrimZeros(remainderStr)
        IN  IF remainder = 0 THEN Val(Str(BigIntToString(quotient)))
            ELSE IF trimmedRemainder # <<>>
                 THEN Val(Str(BigIntToString(quotient) \o <<".">>
                                  \o trimmedRemainder))
            ELSE Val(Str(BigIntToString(quotient)))

\* The decimal strings explored: an integer part and up to n fractional
\* digits, trailing zeros among them, and the same with a minus sign when
\* the number written is not zero.
Fractions(n) ==
    UNION {[1..k -> {"0", "5"}] : k \in 0..n}

Unsigned(n) ==
    {int \o point : int \in {<<"0">>, <<"1">>, <<"1", "2">>},
                    point \in {<<>>} \cup {<<".">> \o f : f \in Fractions(n)}}

UnitStrings(n) ==
    Unsigned(n)
        \cup {<<"-">> \o u : u \in {v \in Unsigned(n) :
                                       \E i \in 1..Len(v) :
                                           v[i] \notin {"0", "."}}}

UnitInputs ==
    {[value |-> Str(v), decimals |-> Num(d)] :
        v \in UnitStrings(MaxDecimals), d \in 0..MaxDecimals}
      \cup {[value |-> Str(v), decimals |-> Undefined] :
              v \in {<<"1">>, <<"0", ".", "5">>, <<"1", ".", "0", "5", "0">>,
                     <<"-", "1", ".", "5">>}}

\* The digits of s after its decimal point.
FractionOf(s) == IF Len(Split(s, ".")) >= 2 THEN Split(s, ".")[2] ELSE <<>>

(***************************************************************************)
(* validatePrivateKey.                                                     *)
(***************************************************************************)
PrivateKeyLength == 64

Uint8Array(bytes) == [t |-> "Uint8Array", bytes |-> bytes]

HexDigits ==
    <<"0", "1", "2", "3", "4", "5", "6", "7", "8", "9",
      "a", "b", "c", "d", "e", "f", "A", "B", "C", "D", "E", "F">>

IsHex(c) == \E n \in 1..22 : HexDigits[n] = c

HexValue(c) ==
    LET n == CHOOSE k \in 1..22 : HexDigits[k] = c
    IN  IF n <= 16 THEN n - 1 ELSE n - 7

LineTerminators == {"\n", "\r"}

\* A run of characters cut, from the left, into pieces of two characters,
\* and of one where a single character is left.
Pairs(run) ==
    [k \in 1..((Len(run) + 1) \div 2) |->
        SubSeq(run, 2 * k - 1, IF 2 * k <= Len(run) THEN 2 * k ELSE Len(run))]

\* str.match(/.{1,2}/g): the pieces of each run of characters between line
\* terminators, which belong to no piece; null when there is no piece.
RECURSIVE Pieces(_)
Pieces(s) ==
    IF \A i \in 1..Len(s) : s[i] \notin LineTerminators THEN Pairs(s)
    ELSE LET k == CHOOSE i \in 1..Len(s) :
                     /\ s[i] \in LineTerminators
                     /\ \A j \in 1..(i - 1) : s[j] \notin LineTerminators
         IN  Pairs(SubSeq(s, 1, k - 1)) \o Pieces(SubSeq(s, k + 1, Len(s)))

Match(s) == IF Pieces(s) = <<>> THEN Null ELSE Arr(Pieces(s))

NaN == [t |-> "number", nan |-> TRUE]

\* parseInt(piece, 16) of a piece of one or two characters: leading white
\* space and a sign are skipped, a 0x prefix is dropped, and the hex digits
\* that follow are read up to the first character that is none; NaN when
\* there is no digit.
RECURSIVE parseInt16(_)
parseInt16(piece) ==
    IF piece = <<>> THEN NaN
    ELSE IF piece[1] = " " THEN parseInt16(Tail(piece))
    ELSE IF piece[1] \in {"-", "+"}
         THEN IF Len(piece) = 2 /\ IsHex(piece[2])
              THEN Num(IF piece[1] = "-" THEN 0 - HexValue(piece[2])
                       ELSE HexValue(piece[2]))
              ELSE NaN
    ELSE IF Len(piece) = 2 /\ piece[1] = "0" /\ piece[2] \in {"x", "X"} THEN NaN
    ELSE IF ~IsHex(piece[1]) THEN NaN
    ELSE IF Len(piece) = 2 /\ IsHex(piece[2])
         THEN Num(16 * HexValue(piece[1]) + HexValue(piece[2]))
    ELSE Num(HexValue(piece[1]))

\* The element a number becomes in a Uint8Array: NaN is 0, the rest is
\* taken modulo 256.
ToUint8(v) == IF "nan" \in DOMAIN v THEN 0 ELSE v.n % 256

validatePrivateKey(privateKey) ==
    IF privateKey.t = "string"
    THEN LET matched == Match(privateKey.s)
             numbers == IF Nullish(matched) THEN <<>>
                        ELSE [i \in 1..Len(matched.a) |-> parseInt16(matched.a[i])]
             bytes == Uint8Array([i \in 1..Len(numbers) |-> ToUint8(numbers[i])])
         IN  Len(bytes.bytes) = PrivateKeyLength
    ELSE privateKey.t = "Uint8Array" /\ Len(privateKey.bytes) = PrivateKeyLength

\* Buffers and strings around the lengths that matter, of hex digits and of
\* other characters, and values that are neither.
PrivateKeyChars == {"0", "a", "F", "9", "g", "z", " ", "-"}

PrivateKeyInputs ==
    {Undefined, Null, Num(64), Bool(TRUE), Obj(NoFields), Arr(Rep(Num(0), 64))}
        \cup {Uint8Array(Rep(b, n)) :
                b \in {0, 255},
                n \in {0, PrivateKeyLength - 1, PrivateKeyLength,
                       PrivateKeyLength + 1, 2 * PrivateKeyLength}}
        \cup {Str(Rep(c, n)) :
                c \in PrivateKeyChars,
                n \in {0, 1, 2, PrivateKeyLength, 2 * PrivateKeyLength - 2,
                       2 * PrivateKeyLength - 1, 2 * PrivateKeyLength,
                       2 * PrivateKeyLength + 1, 2 * PrivateKeyLength + 2}}
        \cup {Str(ReplaceAt(Rep("a", n), k, c)) :
                n \in {2 * PrivateKeyLength, 2 * PrivateKeyLength + 1},
                k \in {1, 2, 2 * PrivateKeyLength},
                c \in PrivateKeyChars \cup LineTerminators}
        \cup {Str(Rep("\n", n)) : n \in 1..2}

(***************************************************************************)
(* createWebhookSignature and verifyWebhookSignature.  A payload or a      *)
(* secret is the sequence of its code points (Text); a signature is a      *)
(* string of base64 characters.                                            *)
(***************************************************************************)
Text(codePoints) == [t |-> "string", cp |-> codePoints]

\* The longest payload and the longest secret explored, in characters.
MaxPayloadLength == 3
MaxSecretLength == 2

\* The UTF-8 encoding of a code point below 65536 that is no surrogate.
Utf8(c) ==
    IF c < 128 THEN <<c>>
    ELSE IF c < 2048 THEN <<192 + (c \div 64), 128 + (c % 64)>>
    ELSE <<224 + (c \div 4096), 128 + ((c \div 64) % 64), 128 + (c % 64)>>

\* new TextEncoder().encode(str)
RECURSIVE TextEncoder_encode(_)
TextEncoder_encode(str) ==
    IF str.cp = <<>> THEN <<>>
    ELSE Utf8(Head(str.cp)) \o TextEncoder_encode(Text(Tail(str.cp)))

\* a ^ b of two integers that are not negative
RECURSIVE Xor(_, _)
Xor(a, b) ==
    IF a = 0 THEN b
    ELSE IF b = 0 THEN a
    ELSE ((a + b) % 2) + 2 * Xor(a \div 2, b \div 2)

Base64Chars ==
    <<"A", "B", "C", "D", "E", "F", "G", "H", "I", "J", "K", "L", "M",
      "N", "O", "P", "Q", "R", "S", "T", "U", "V", "W", "X", "Y", "Z",
      "a", "b", "c", "d", "e", "f", "g", "h", "i", "j", "k", "l", "m",
      "n", "o", "p", "q", "r", "s", "t", "u", "v", "w", "x", "y", "z",
      "0", "1", "2", "3", "4", "5", "6", "7", "8", "9", "+", "/">>

\* btoa(str) of a string whose characters are the given bytes: every three
\* bytes give four characters, and `=` fills the last four.
btoa(bytes) ==
    LET n == Len(bytes)
        At(i) == IF i <= n THEN bytes[i] ELSE 0
        Sextet(g, j) ==
            CASE j = 1 -> At(3 * g - 2) \div 4
              [] j = 2 -> (At(3 * g - 2) % 4) * 16 + (At(3 * g - 1) \div 16)
              [] j = 3 -> (At(3 * g - 1) % 16) * 4 + (At(3 * g) \div 64)
              [] j = 4 -> At(3 * g) % 64
        Char(g, j) ==
            IF (j = 3 /\ 3 * g - 1 > n) \/ (j = 4 /\ 3 * g > n) THEN "="
            ELSE Base64Chars[Sextet(g, j) + 1]
    IN  [k \in 1..(4 * ((n + 2) \div 3)) |->
            Char(((k - 1) \div 4) + 1, ((k - 1) % 4) + 1)]

\* key[i % key.length] in `byte ^ key[...]`, i counted from 0: with an
\* empty key the index is NaN, the element undefined, and the byte is left
\* as it is.
KeyByte_noRepeat(key, i) == IF i < Len(key) THEN key[i + 1] ELSE 0

KeyByte(key, i) == IF Len(key) = 0 THEN 0 ELSE key[(i % Len(key)) + 1]

createWebhookSignature(payload, secret) ==
    LET key == TextEncoder_encode(secret)
        data == TextEncoder_encode(payload)
    IN  Str(btoa([i \in 1..Len(data) |-> Xor(data[i], KeyByte(key, i - 1))]))

verifyWebhookSignature(payload, signature, secret) ==
    LET expectedSignature == createWebhookSignature(payload, secret)
    IN  signature = expectedSignature

\* Payloads and secrets of characters that take one, two and three bytes,
\* and the signatures offered for verification: those of the payloads and
\* secrets explored, and one that is none.
Texts(chars, n) == UNION {{Text(t) : t \in [1..k -> chars]} : k \in 0..n}

Payloads == Texts({97, 233, 8364}, MaxPayloadLength)
Secrets == Texts({107, 1, 233}, MaxSecretLength)

SignatureInputs == {[payload |-> p, secret |-> k] : p \in Payloads, k \in Secrets}

VerifyInputs ==
    LET few == {i \in SignatureInputs :
                  Len(i.payload.cp) <= 2 /\ Len(i.secret.cp) <= 1}
    IN  {[payload |-> i.payload, secret |-> i.secret, signature |-> g] :
            i \in few,
            g \in {createWebhookSignature(j.payload, j.secret) : j \in few}
                     \cup {Str(<<"=">>)}}

\* A call of utility fn on input, not yet run.
Call(fn, input) == [pc |-> "input", fn |-> fn, input |-> input]

\* The calls explored.
ProbeCalls ==
    {Call("validatePublicKey", k) : k \in KeyInputs}
        \cup {Call("formatPublicKey", k) : k \in KeyInputs}
        \cup {Call("validatePrivateKey", k) : k \in PrivateKeyInputs}
        \cup {Call("createWebhookSignature", i) : i \in SignatureInputs}
        \cup {Call("verifyWebhookSignature", i) : i \in VerifyInputs}
        \cup {Call("formatUnits(parseUnits)", u) :
                u \in {i \in UnitInputs :
                         i.decimals # Undefined =>
                             Len(FractionOf(i.value.s)) <= i.decimals.n}}

ProbeInit ==
    /\ Constructed
    /\ license = Active
    /\ calls = [i \in Slots |-> NoCall]
    /\ retrying = NoRetry
    /\ probe \in ProbeCalls

\* The call of a utility has run: what it returned or threw.
Ran(result) ==
    probe' = [pc |-> "output", fn |-> probe.fn, input |-> probe.input,
              output |-> result]

\* validatePublicKey(input) is called and returns.
ValidateKey ==
    /\ probe.pc = "input"
    /\ probe.fn = "validatePublicKey"
    /\ probe' = [pc |-> "output", fn |-> probe.fn, input |-> probe.input,
                 output |-> Bool(validatePublicKey(probe.input))]
    /\ UNCHANGED <<client, license, calls, retrying>>

\* formatPublicKey(input) is called and returns or throws.
FormatKey ==
    /\ probe.pc = "input"
    /\ probe.fn = "formatPublicKey"
    /\ LET r == formatPublicKey(probe.input)
       IN  Ran(IF r.ok THEN Returned(r.v) ELSE Threw(r.e))
    /\ UNCHANGED <<client, license, calls, retrying>>

\* formatUnits(parseUnits(value, decimals), decimals) is evaluated.
ParseThenFormat ==
    /\ probe.pc = "input"
    /\ probe.fn = "formatUnits(parseUnits)"
    /\ LET parsed == parseUnits(probe.input.value, probe.input.decimals)
           r == IF parsed.ok THEN formatUnits(parsed.v, probe.input.decimals)
                ELSE parsed
       IN  Ran(IF r.ok THEN Returned(r.v) ELSE Threw(r.e))
    /\ UNCHANGED <<client, license, calls, retrying>>

\* validatePrivateKey(input) is called and returns.
ValidatePrivateKey ==
    /\ probe.pc = "input"
    /\ probe.fn = "validatePrivateKey"
    /\ Ran(Bool(validatePrivateKey(probe.input)))
    /\ UNCHANGED <<client, license, calls, retrying>>

\* createWebhookSignature(payload, secret) is called and returns.
CreateSignature ==
    /\ probe.pc = "input"
    /\ probe.fn = "createWebhookSignature"
    /\ Ran(createWebhookSignature(probe.input.payload, probe.input.secret))
    /\ UNCHANGED <<client, license, calls, retrying>>

\* verifyWebhookSignature(payload, signature, secret) is called and returns.
VerifySignature ==
    /\ probe.pc = "input"
    /\ probe.fn = "verifyWebhookSignature"
    /\ Ran(Bool(verifyWebhookSignature(probe.input.payload,
                                       probe.input.signature,
                                       probe.input.secret)))
    /\ UNCHANGED <<client, license, calls, retrying>>

ProbeNext ==
    \/ ValidateKey
    \/ FormatKey
    \/ ValidatePrivateKey
    \/ CreateSignature
    \/ VerifySignature
    \/ ParseThenFormat

ProbeSpec == ProbeInit /\ [][ProbeNext]_vars

\* The letters and digits, and the base58 alphabet as what is left of them
\* without 0, O, I and l.
Alphanumeric ==
    {"0", "1", "2", "3", "4", "5", "6", "7", "8", "9",
     "A", "B", "C", "D", "E", "F", "G", "H", "I", "J", "K", "L", "M",
     "N", "O", "P", "Q", "R", "S", "T", "U", "V", "W", "X", "Y", "Z",
     "a", "b", "c", "d", "e", "f", "g", "h", "i", "j", "k", "l", "m",
     "n", "o", "p", "q", "r", "s", "t", "u", "v", "w", "x", "y", "z"}

IsBase58Key(v) ==
    /\ v.t = "string"
    /\ Len(v.s) >= 32
    /\ Len(v.s) <= 44
    /\ \A i \in 1..Len(v.s) : v.s[i] \in Alphanumeric \ {"0", "O", "I", "l"}

\* C20: validatePublicKey(key) returns true if and only if key is a string
\* of 32 to 44 characters of the base58 alphabet; for every input it
\* returns a boolean and raises nothing.
C20_ValidatePublicKey ==
    (probe.pc = "output" /\ probe.fn = "validatePublicKey") =>
        probe.output = Bool(IsBase58Key(probe.input))

C20_Witness ==
    /\ probe.pc = "output"
    /\ probe.fn = "validatePublicKey"
    /\ probe.input = Str(Rep("z", 44))
    /\ probe.output = Bool(TRUE)

\* C21: formatPublicKey(key) returns key itself when validatePublicKey(key)
\* is true and otherwise raises ValidationError, code VALIDATION_ERROR; it
\* never returns a value different from its input.
C21_FormatPublicKey ==
    (probe.pc = "output" /\ probe.fn = "formatPublicKey") =>
        /\ IsBase58Key(probe.input) => probe.output = Returned(probe.input)
        /\ ~IsBase58Key(probe.input) =>
              /\ probe.output.kind = "threw"
              /\ probe.output.error.name = "SolanaValidationError"
              /\ probe.output.error.code = "VALIDATION_ERROR"
        /\ probe.output.kind = "returned" => probe.output.value = probe.input

C21_Witness ==
    /\ probe.pc = "output"
    /\ probe.fn = "formatPublicKey"
    /\ probe.input = Str(Rep("l", 40))
    /\ probe.output.kind = "threw"

\* s with the trailing zeros of its fractional part removed, and its
\* decimal point too when no fractional digit is left.
Normalized(s) ==
    LET parts == Split(s, ".")
        fraction == TrimZeros(FractionOf(s))
    IN  IF fraction = <<>> THEN parts[1] ELSE parts[1] \o <<".">> \o fraction

\* C22: for every decimals d and every decimal string s with at most d
\* fractional digits, values below 1, negative values and strings with
\* trailing fractional zeros included, formatUnits(parseUnits(s, d), d) is
\* s with its trailing fractional zeros removed and the decimal point
\* omitted when the fractional part is zero.
C22_RoundTrip ==
    (probe.pc = "output" /\ probe.fn = "formatUnits(parseUnits)") =>
        probe.output = Returned(Str(Normalized(probe.input.value.s)))

\* A buffer of exactly 64 bytes, or the 128 hex digits that encode one.
IsPrivateKey(v) ==
    \/ v.t = "Uint8Array" /\ Len(v.bytes) = 64
    \/ /\ v.t = "string"
       /\ Len(v.s) = 128
       /\ \A i \in 1..128 :
             v.s[i] \in {"0", "1", "2", "3", "4", "5", "6", "7", "8", "9",
                         "a", "b", "c", "d", "e", "f",
                         "A", "B", "C", "D", "E", "F"}

\* C23: validatePrivateKey(key) returns true if and only if key is a
\* binary buffer of exactly 64 bytes or a string that is the hex encoding
\* of exactly 64 bytes (128 hex digits); a string with a character that is
\* no hex digit, or of another length, gives false, as every other input.
C23_ValidatePrivateKey ==
    (probe.pc = "output" /\ probe.fn = "validatePrivateKey") =>
        probe.output = Bool(IsPrivateKey(probe.input))

\* Bit j of x, bit 0 the lowest.
RECURSIVE Pow2(_)
Pow2(n) == IF n = 0 THEN 1 ELSE 2 * Pow2(n - 1)

Bit(x, j) == (x \div Pow2(j)) % 2

\* The bytes a base64 string stands for: each character before the `=`
\* padding gives six bits, and every eight bits, in order, are a byte.
Base64Decoded(str) ==
    LET chars == SelectSeq(str, LAMBDA c : c # "=")
        Index(c) == (CHOOSE n \in 1..64 : Base64Chars[n] = c) - 1
        StreamBit(p) == Bit(Index(chars[(p \div 6) + 1]), 5 - (p % 6))
        Weighted(i, j) == StreamBit(8 * (i - 1) + j) * Pow2(7 - j)
    IN  [i \in 1..((6 * Len(chars)) \div 8) |->
            Weighted(i, 0) + Weighted(i, 1) + Weighted(i, 2) + Weighted(i, 3)
              + Weighted(i, 4) + Weighted(i, 5) + Weighted(i, 6) + Weighted(i, 7)]

IsBase64(str) ==
    /\ Len(str) % 4 = 0
    /\ \A i \in 1..Len(str) :
          \/ \E n \in 1..64 : Base64Chars[n] = str[i]
          \/ str[i] = "=" /\ i > Len(str) - 2
                          /\ \A k \in i..Len(str) : str[k] = "="

\* C24: createWebhookSignature(payload, secret) is the base64 encoding of
\* the bytes payload[i] XOR secret[i mod length(secret)];
\* verifyWebhookSignature(payload, signature, secret) is true exactly when
\* signature equals createWebhookSignature(payload, secret), so that a
\* signature made with a payload and a secret verifies against them.
C24_WebhookSignature ==
    /\ (probe.pc = "output" /\ probe.fn = "createWebhookSignature") =>
          LET data == TextEncoder_encode(probe.input.payload)
              key == TextEncoder_encode(probe.input.secret)
              bytes == Base64Decoded(probe.output.s)
          IN  /\ IsBase64(probe.output.s)
              /\ Len(bytes) = Len(data)
              /\ key # <<>> =>
                    \A i \in 1..Len(data) : \A j \in 0..7 :
                        Bit(bytes[i], j) =
                            (Bit(data[i], j)
                               + Bit(key[((i - 1) % Len(key)) + 1], j)) % 2
    /\ (probe.pc = "output" /\ probe.fn = "verifyWebhookSignature") =>
          probe.output =
              Bool(probe.input.signature =
                      createWebhookSignature(probe.input.payload,
                                             probe.input.secret))

C24_Witness ==
    /\ probe.pc = "output"
    /\ probe.fn = "verifyWebhookSignature"
    /\ probe.input.payload = Text(<<97, 233>>)
    /\ probe.input.secret = Text(<<107>>)
    /\ probe.input.signature = Str(<<"C", "q", "j", "C">>)
    /\ probe.output = Bool(TRUE)

\* The configuration a client constructed from the caller's fields u has.
Configured(u) ==
    [apiKey |-> u.apiKey,
     baseUrl |-> IF "baseUrl" \in DOMAIN u THEN u.baseUrl
                 ELSE Url("https", "api.licensechain.com"),
     rpcUrl |-> IF "rpcUrl" \in DOMAIN u THEN u.rpcUrl
                ELSE Url("https", "api.mainnet-beta.solana.com"),
     timeout |-> IF "timeout" \in DOMAIN u THEN u.timeout ELSE 30000,
     retries |-> IF "retries" \in DOMAIN u THEN u.retries ELSE 3]

\* Every request of the invocation goes to the configured URL, of the API
\* for a manager's operation and of the cluster for an RPC passthrough,
\* with the configured API key and timeout.
RequestsAsConfigured ==
    \A i \in 1..Len(sent) :
        /\ sent[i].authorization = config.apiKey
        /\ sent[i].timeout = config.timeout
        /\ sent[i].url.base = IF Callee(op).kind = "rest" THEN config.baseUrl
                              ELSE config.rpcUrl

\* C25: no operation of the facade or of its managers changes the
\* configuration after construction: it stays the caller's fields with the
\* defaults (baseUrl https://api.licensechain.com, rpcUrl
\* https://api.mainnet-beta.solana.com, timeout 30000, retries 3) for those
\* omitted, and every request of every operation, of a manager as of the
\* facade, uses its URL, API key and timeout.
C25_ConfigurationFixed ==
    /\ [](/\ \E u \in UserConfigs : config = Configured(u)
          /\ RequestsAsConfigured)
    /\ [][config' = config]_vars

C25_Witness ==
    /\ pc = "done"
    /\ op = LicenseChainSolana_createLicense
    /\ outcome.kind = "returned"
    /\ config = Configured([apiKey |-> "key-2", timeout |-> 5000,
                            baseUrl |-> Url("https", "api.licensechain.app"),
                            rpcUrl |-> Url("http", "localhost:8899"),
                            retries |-> 0])
    /\ Len(sent) = 1
    /\ sent[1].timeout = 5000
    /\ sent[1].authorization = "key-2"
    /\ sent[1].url.base = Url("https", "api.licensechain.app")

\* C26: the promise returned by retry settles exactly once, resolved or
\* rejected and never both nor twice; it settles whenever every invocation
\* of the operation terminates; and once it has settled the operation is
\* not invoked again and no further delay is scheduled.
C26_SettlesOnce ==
    /\ [](retrying.pc # "idle" =>
            /\ retrying.settlements <= 1
            /\ retrying.settlements = 1 <=> retrying.result # Pending
            /\ retrying.result # Pending =>
                  /\ retrying.pending = 0
                  /\ retrying.inflight = 0
                  /\ retrying.pc =
                        IF retrying.result.kind = "returned" THEN "resolved"
                        ELSE "rejected")
    /\ [][(retrying.pc # "idle" /\ retrying.result # Pending) =>
             retrying' = NoRetry]_vars
    /\ (retrying.pc \in {"running", "waiting"})
          ~> (retrying.pc # "idle" /\ retrying.result # Pending)

C26_Witness ==
    /\ retrying.pc = "rejected"
    /\ retrying.settlements = 1
    /\ retrying.invocations = 3
    /\ Len(retrying.timers) = 2
    /\ retrying.pending = 0
    /\ retrying.result.kind = "threw"

\* C27: getBlock(slot), when the RPC response has a null or missing
\* `value`, raises an error whose code is BLOCK_NOT_FOUND, and not the
\* BLOCK_ERROR raised when the request itself fails.
C27_BlockNotFound ==
    (/\ pc = "done"
     /\ op = LicenseChainSolana_getBlock
     /\ OkBody(response)
     /\ ~HasRpcError(response)
     /\ Nullish(RpcValue(response))) =>
        /\ outcome.kind = "threw"
        /\ outcome.error.code = "BLOCK_NOT_FOUND"

\* C28: confirmTransaction(signature, commitment) returns a Transaction
\* only when the RPC response holds a status entry for the signature that
\* is not null; the confirmationStatus returned is the commitment asked
\* for ('confirmed' when none is given), whatever status the cluster
\* reported; slot and blockTime are 0 when the entry lacks them, and err
\* is the entry's err.
C28_ConfirmTransaction ==
    (/\ pc = "done"
     /\ op = LicenseChainSolana_confirmTransaction
     /\ outcome.kind = "returned") =>
        LET entry == First(RpcValue(response))
            Field(k) == IF "f" \in DOMAIN entry /\ k \in DOMAIN entry.f
                        THEN entry.f[k] ELSE Undefined
        IN  /\ OkBody(response)
            /\ ~HasRpcError(response)
            /\ ~Nullish(entry)
            /\ outcome.value =
                  Obj([signature |-> args[1],
                       slot |-> IF Field("slot") = Undefined THEN Num(0)
                                ELSE Field("slot"),
                       blockTime |-> IF Field("blockTime") = Undefined THEN Num(0)
                                     ELSE Field("blockTime"),
                       confirmationStatus |->
                           IF args[2] = Undefined
                           THEN Str(<<"c", "o", "n", "f", "i", "r", "m", "e", "d">>)
                           ELSE args[2],
                       err |-> Field("err")])

C28_Witness ==
    /\ pc = "done"
    /\ op = LicenseChainSolana_confirmTransaction
    /\ args = <<Sig1, Processed>>
    /\ outcome.kind = "returned"
    /\ OkBody(response)
    /\ RpcValue(response) = Arr(<<SignatureStatus>>)
    /\ outcome.value.f.confirmationStatus = Processed
    /\ outcome.value.f.slot = Num(9)
    /\ outcome.value.f.blockTime = Num(0)

\* The keys of the metadata a caller gave: none when none was given.
Keys(metadata) == IF metadata.t = "object" THEN DOMAIN metadata.f ELSE {}

\* C29: the request body sent by createLicense always has metadata.platform
\* = 'solana' and metadata.createdVia = 'sdk', whatever platform or
\* createdVia the caller's metadata holds, and every other key of the
\* caller's metadata with its value; the caller's metadata itself is not
\* modified.
C29_CreateLicenseMetadata ==
    /\ []((Callee(op) = SolanaLicenseManager_createLicense /\ sent # <<>>) =>
            LET metadata == sent[1].body.f.metadata.f
                given == args[3]
            IN  /\ metadata.platform = Str(<<"s", "o", "l", "a", "n", "a">>)
                /\ metadata.createdVia = Str(<<"s", "d", "k">>)
                /\ DOMAIN metadata = Keys(given) \cup {"platform", "createdVia"}
                /\ \A k \in Keys(given) \ {"platform", "createdVia"} :
                      metadata[k] = given.f[k])
    /\ [][(Callee(op) = SolanaLicenseManager_createLicense /\ pc # "done")
             => args' = args]_vars

C29_Witness ==
    /\ pc = "awaiting"
    /\ op = LicenseChainSolana_createLicense
    /\ args[3] = Obj([platform |-> Evm, createdVia |-> Evm, tier |-> Id1])
    /\ sent[1].body.f.metadata =
          Obj([platform |-> Solana, createdVia |-> Sdk, tier |-> Id1])

\* The call was refused locally: a ValidationError and no request.
RefusedLocally ==
    /\ pc = "done"
    /\ sent = <<>>
    /\ Received("SolanaValidationError", "VALIDATION_ERROR")

\* The call sent one request, whose body carries `value` as field k.
Forwarded(k, value) ==
    /\ Len(sent) = 1
    /\ sent[1].body.f[k] = value

\* C30: numeric inputs are checked before any request.  listNFT and buyNFT
\* raise ValidationError and send nothing when price is 0, and forward any
\* other price, a negative one included; extendLicense raises
\* ValidationError and sends nothing when days <= 0, and forwards every
\* days > 0.
C30_NumericChecks ==
    /\ (pc # "idle" /\ Callee(op) \in {SolanaNFTManager_listNFT,
                                        SolanaNFTManager_buyNFT}) =>
          LET party == IF Callee(op) = SolanaNFTManager_listNFT
                       THEN mgrArgs.seller ELSE mgrArgs.buyer
          IN  /\ mgrArgs.price = Num(0) => RefusedLocally
              /\ (/\ mgrArgs.price.n # 0
                  /\ IsBase58Key(mgrArgs.mint)
                  /\ IsBase58Key(party)) => Forwarded("price", mgrArgs.price)
    /\ (pc # "idle" /\ Callee(op) = SolanaLicenseManager_extendLicense) =>
          /\ mgrArgs.days.n <= 0 => RefusedLocally
          /\ (mgrArgs.days.n > 0 /\ mgrArgs.licenseId = Id1) =>
                Forwarded("days", mgrArgs.days)

C30_Witness ==
    /\ pc = "awaiting"
    /\ op = SolanaNFTManager_listNFT
    /\ mgrArgs.price = Num(0 - 1)
    /\ Len(sent) = 1
    /\ sent[1].body.f.price = Num(0 - 1)

=============================================================================
